---- MODULE Spec2Model ----
(***************************************************************************)
(* Miniscript interpreter (src/src/interpreter/mod.rs) and satisfier       *)
(* (src/src/miniscript/satisfy.rs) as a state machine.                     *)
(*                                                                         *)
(* Byte strings are sequences of numbers 0..255.  Keys, hashes and         *)
(* signatures of the external crypto library are small numbers:            *)
(*   - key i serialises to <<2, i>>, its hash160 is 100 + i;           *)
(*   - the DER form of a signature made by key i is <<48, i>> followed by  *)
(*     zeros, 70 bytes in all or one more; a raw signature is the DER form *)
(*     followed by the sighash flag byte;                                  *)
(*   - a hash preimage is 32 bytes, its digest is its first byte.          *)
(* Stacks (Vec) are sequences whose LAST element is the top.               *)
(***************************************************************************)
EXTENDS Integers, Sequences, FiniteSets, TLC

VARIABLES
    inner,        \* Interpreter.inner: the spending context
    stack,        \* Interpreter.stack, borrowed by Iter.stack
    age,          \* Interpreter.age / Iter.age
    height,       \* Interpreter.height / Iter.height
    iterating,    \* whether Interpreter::iter has built the Iter
    public_key,   \* Iter.public_key: <<>> is None, <<pk>> is Some(pk)
    state,        \* Iter.state: the frame stack of NodeEvaluationState
    has_errored,  \* Iter.has_errored
    out,          \* the items returned so far by Iter::next, in call order
    stack0,       \* the witness stack handed to the interpreter
    lookup,       \* stfr: the lookup table the satisfier is given
    satisfaction, \* Option of the Satisfaction that Satisfaction::satisfy returned
    satisfaction_mall, \* Option of the Satisfaction that Satisfaction::satisfy_mall returned
    root_has_sig, \* the flag Satisfaction::satisfy is called with
    dissatisfaction, \* Option of a term and what dissatisfy_helper returned for it
    candidates,   \* the two Satisfactions Satisfaction::minimum is called with
    chosen,       \* Option of the Satisfaction that Satisfaction::minimum returned
    script,       \* the script handed to lex: its instructions in order
    tokens,       \* Option of the Result that lex returned
    psbt,         \* Option of the Psbt handed to extract and to PsbtInputSatisfier
    answer,       \* Option of a call on the Psbt or on Older and what it returned
    popped        \* the frames iter_next has popped from Iter.state, in order

\* the lexer and the PSBT adapter
adapters == <<script, tokens, psbt, answer>>

\* the calls of dissatisfy_helper and of minimum, and the adapters
calls == <<dissatisfaction, candidates, chosen, adapters>>

vars == <<inner, stack, age, height, iterating, public_key, state,
          has_errored, out, stack0, lookup, satisfaction, satisfaction_mall, root_has_sig, calls,
          popped>>

----------------------------------------------------------------------------
(* Bounds of the model *)

MaxStackLen == 4
MaxCalls == 5

----------------------------------------------------------------------------
(* Sequences as Vec *)

Last(s) == s[Len(s)]
Front(s) == SubSeq(s, 1, Len(s) - 1)
Range(s) == {s[i] : i \in 1..Len(s)}

RECURSIVE SeqsUpTo(_, _)
SeqsUpTo(S, n) ==
    IF n = 0 THEN {<<>>}
    ELSE LET shorter == SeqsUpTo(S, n - 1)
         IN  shorter \cup {Append(s, x) : s \in {t \in shorter : Len(t) = n - 1}, x \in S}

----------------------------------------------------------------------------
(* Terminal: the AST.  Every node is a record of the same shape:           *)
(*   t    the variant, n  its number (key, hash, time or threshold k),     *)
(*   subs the children, keys the keys of a Multi.                          *)

Node(t, n, subs, keys) == [t |-> t, n |-> n, subs |-> subs, keys |-> keys]

True == Node("True", 0, <<>>, <<>>)
False == Node("False", 0, <<>>, <<>>)
PkK(pk) == Node("PkK", pk, <<>>, <<>>)
PkH(pkh) == Node("PkH", pkh, <<>>, <<>>)
After(n) == Node("After", n, <<>>, <<>>)
Older(n) == Node("Older", n, <<>>, <<>>)
Sha256(h) == Node("Sha256", h, <<>>, <<>>)
Hash256(h) == Node("Hash256", h, <<>>, <<>>)
Ripemd160(h) == Node("Ripemd160", h, <<>>, <<>>)
Hash160(h) == Node("Hash160", h, <<>>, <<>>)
Alt(sub) == Node("Alt", 0, <<sub>>, <<>>)
Swap(sub) == Node("Swap", 0, <<sub>>, <<>>)
Check(sub) == Node("Check", 0, <<sub>>, <<>>)
DupIf(sub) == Node("DupIf", 0, <<sub>>, <<>>)
Verify(sub) == Node("Verify", 0, <<sub>>, <<>>)
NonZero(sub) == Node("NonZero", 0, <<sub>>, <<>>)
ZeroNotEqual(sub) == Node("ZeroNotEqual", 0, <<sub>>, <<>>)
AndV(l, r) == Node("AndV", 0, <<l, r>>, <<>>)
AndB(l, r) == Node("AndB", 0, <<l, r>>, <<>>)
OrB(l, r) == Node("OrB", 0, <<l, r>>, <<>>)
OrC(l, r) == Node("OrC", 0, <<l, r>>, <<>>)
OrD(l, r) == Node("OrD", 0, <<l, r>>, <<>>)
OrI(l, r) == Node("OrI", 0, <<l, r>>, <<>>)
AndOr(a, b, c) == Node("AndOr", 0, <<a, b, c>>, <<>>)
Thresh(k, subs) == Node("Thresh", k, subs, <<>>)
Multi(k, keys) == Node("Multi", k, <<>>, keys)

----------------------------------------------------------------------------
(* The external crypto library, in small *)

PreimageLen == 32
SIGHASH_ALL == 1

to_pubkeyhash(pk) == 100 + pk
to_bytes(pk) == <<2, pk>>
PublicKey_from_slice_ok(bytes) == Len(bytes) = 2 /\ bytes[1] = 2
PublicKey_from_slice(bytes) == bytes[2]

\* Signature::serialize_der of the signature key pk made: DerLen bytes, or
\* pad bytes longer
DerLen == 70
serialize_der(pk, pad) == <<48, pk>> \o [i \in 1..(DerLen - 2 + pad) |-> 0]
from_der_ok(bytes) == Len(bytes) >= 2 /\ bytes[1] = 48
signer(der) == der[2]

\* SigHashType::from_u32_standard accepts exactly the six standard flags
StandardSigHash == {1, 2, 3, 129, 130, 131}

RawSig(pk, pad, flag) == Append(serialize_der(pk, pad), flag)

Preimage(h) == [i \in 1..PreimageLen |-> h]
hash_of(pre) == pre[1]

\* The host's verification predicate: the signature was made by the key
verify_sig(pk, der) == signer(der) = pk

----------------------------------------------------------------------------
(* stack::Element and the items of the iteration *)

Satisfied == [e |-> "Satisfied", v |-> <<>>]
Dissatisfied == [e |-> "Dissatisfied", v |-> <<>>]
Push(v) == [e |-> "Push", v |-> v]

\* Element from a witness item: the empty push is false, the push of 1 true
Element_from(bytes) ==
    IF bytes = <<>> THEN Dissatisfied
    ELSE IF bytes = <<1>> THEN Satisfied
    ELSE Push(bytes)

Stack_from(witness) == [i \in 1..Len(witness) |-> Element_from(witness[i])]

Item(r, kind, id, sig) == [r |-> r, kind |-> kind, id |-> id, sig |-> sig]
None == Item("None", "", 0, <<>>)
Cont == Item("Cont", "", 0, <<>>)
Ok(kind, id, sig) == Item("Ok", kind, id, sig)
Err(kind) == Item("Err", kind, 0, <<>>)
ErrAt(kind, id) == Item("Err", kind, id, <<>>)

IsErr(x) == x.r = "Err"
IsOk(x) == x.r = "Ok"

----------------------------------------------------------------------------
(* verify_sersig: Ok carries the DER signature *)

verify_sersig(pk, sigser) ==
    IF sigser = <<>> THEN ErrAt("PkEvaluationError", pk)
    ELSE LET sighash_byte == Last(sigser)
             sig == Front(sigser)
         IN  IF sighash_byte \notin StandardSigHash
             THEN Item("Err", "NonStandardSigHash", 0, sig \o <<sighash_byte>>)
             ELSE IF ~from_der_ok(sig) THEN Err("Secp")
             ELSE IF verify_sig(pk, sig) THEN Ok("Signature", pk, sig)
             ELSE ErrAt("InvalidSignature", pk)

----------------------------------------------------------------------------
(* The witness stack's primitive evaluators.  Each gives the new stack and *)
(* what the evaluator returns: Cont stands for Rust's None (nothing to     *)
(* yield, the traversal goes on).                                          *)

Ev(stk, ret) == [stack |-> stk, ret |-> ret]

evaluate_pk(stk, pk) ==
    IF stk = <<>> THEN Ev(stk, Err("UnexpectedStackEnd"))
    ELSE LET top == Last(stk)
             rest == Front(stk)
         IN  CASE top = Dissatisfied -> Ev(Append(rest, Dissatisfied), Cont)
               [] top.e = "Push" ->
                    LET sig == verify_sersig(pk, top.v)
                    IN  IF IsOk(sig)
                        THEN Ev(Append(rest, Satisfied), Ok("PublicKey", pk, sig.sig))
                        ELSE Ev(rest, sig)
               [] OTHER -> Ev(rest, Err("UnexpectedStackElementPush"))

evaluate_pkh(stk, pkh) ==
    IF stk = <<>> \/ Last(stk).e # "Push" THEN Ev(stk, Err("UnexpectedStackEnd"))
    ELSE LET pk_bytes == Last(stk).v
             rest == Front(stk)
         IN  IF ~PublicKey_from_slice_ok(pk_bytes) THEN Ev(rest, Err("PubkeyParseError"))
             ELSE LET pk == PublicKey_from_slice(pk_bytes)
                  IN  IF to_pubkeyhash(pk) # pkh THEN Ev(rest, ErrAt("PkHashVerifyFail", pkh))
                      ELSE IF rest = <<>> THEN Ev(rest, Err("UnexpectedStackEnd"))
                      ELSE LET top == Last(rest)
                               rest2 == Front(rest)
                           IN  CASE top = Dissatisfied -> Ev(Append(rest2, Dissatisfied), Cont)
                                 [] top.e = "Push" ->
                                      LET sig == verify_sersig(pk, top.v)
                                      IN  IF IsOk(sig)
                                          THEN Ev(Append(rest2, Satisfied),
                                                  Ok("PublicKeyHash", pk, sig.sig))
                                          ELSE Ev(rest2, sig)
                                 [] OTHER -> Ev(rest2, Err("UnexpectedStackElementPush"))

\* evaluate_sha256 / hash256 / hash160 / ripemd160; hashlock names the kind
evaluate_hash(stk, hashlock, hash) ==
    IF stk = <<>> \/ Last(stk).e # "Push" THEN Ev(stk, Err("UnexpectedStackEnd"))
    ELSE LET preimage == Last(stk).v
             rest == Front(stk)
         IN  IF Len(preimage) # PreimageLen THEN Ev(rest, Err("HashPreimageLengthMismatch"))
             ELSE IF hash_of(preimage) = hash
                  THEN Ev(Append(rest, Satisfied), Ok(hashlock, hash, <<>>))
                  ELSE Ev(Append(rest, Dissatisfied), Cont)

evaluate_after(stk, n, age_) ==
    IF n <= age_ THEN Ev(Append(stk, Satisfied), Ok("AbsoluteTimeLock", n, <<>>))
    ELSE Ev(stk, ErrAt("AbsoluteLocktimeNotMet", n))

evaluate_older(stk, n, height_) ==
    IF n <= height_ THEN Ev(Append(stk, Satisfied), Ok("RelativeTimeLock", n, <<>>))
    ELSE Ev(stk, ErrAt("RelativeLocktimeNotMet", n))

\* One key of a Multi against the top push: a match consumes the push, a
\* mismatch puts it back and returns nothing.
evaluate_multi(stk, pk) ==
    IF stk = <<>> THEN Ev(stk, Err("UnexpectedStackEnd"))
    ELSE LET top == Last(stk)
         IN  IF top.e = "Push"
             THEN LET sig == verify_sersig(pk, top.v)
                  IN  IF IsOk(sig) THEN Ev(Front(stk), Ok("PublicKey", pk, sig.sig))
                      ELSE Ev(stk, Cont)
             ELSE Ev(Front(stk), Err("UnexpectedStackBoolean"))

----------------------------------------------------------------------------
(* Iter: the frame stack and one turn of the loop of iter_next *)

NodeEvaluationState(node, n_evaluated, n_satisfied) ==
    [node |-> node, n_evaluated |-> n_evaluated, n_satisfied |-> n_satisfied]

push_evaluation_state(frames, node, n_evaluated, n_satisfied) ==
    Append(frames, NodeEvaluationState(node, n_evaluated, n_satisfied))

\* The Iter after one turn: its frames, its stack, and ret: Cont when the
\* loop goes on, else the value iter_next returns.
Turn(frames, stk, ret) == [state |-> frames, stack |-> stk, ret |-> ret]

\* an evaluator's result: `if res.is_some() { return res; }`
Leaf(frames, ev) == Turn(frames, ev.stack, ev.ret)

\* pop a boolean off the stack and go on by it
PopBool(frames, stk, onSat, onDissat) ==
    IF stk = <<>> THEN Turn(frames, stk, Err("UnexpectedStackEnd"))
    ELSE CASE Last(stk) = Satisfied -> onSat
           [] Last(stk) = Dissatisfied -> onDissat
           [] OTHER -> Turn(frames, Front(stk), Err("UnexpectedStackElementPush"))

\* a DupIf that counts its child twice
step_DupIf_counts_twice(frames, ns, stk) ==
    LET sub == ns.node.subs[1]
        rest == Front(stk)
    IN  IF ns.n_evaluated = 0
        THEN PopBool(frames, stk,
                 Turn(push_evaluation_state(
                          push_evaluation_state(frames, ns.node, 2, 1), sub, 0, 0),
                      rest, Cont),
                 Turn(frames, Append(rest, Dissatisfied), Cont))
        ELSE IF ns.n_evaluated = 1 THEN Turn(frames, Append(stk, Satisfied), Cont)
        ELSE Turn(frames, stk, Err("CouldNotEvaluate"))

step_DupIf(frames, ns, stk) ==
    LET sub == ns.node.subs[1]
        rest == Front(stk)
    IN  IF ns.n_evaluated = 0
        THEN PopBool(frames, stk,
                 Turn(push_evaluation_state(
                          push_evaluation_state(frames, ns.node, 1, 1), sub, 0, 0),
                      rest, Cont),
                 Turn(frames, Append(rest, Dissatisfied), Cont))
        ELSE IF ns.n_evaluated = 1 THEN Turn(frames, Append(stk, Satisfied), Cont)
        ELSE Turn(frames, stk, Err("CouldNotEvaluate"))

step_Verify(frames, ns, stk) ==
    IF ns.n_evaluated = 0
    THEN Turn(push_evaluation_state(
                  push_evaluation_state(frames, ns.node, 1, 0), ns.node.subs[1], 0, 0),
              stk, Cont)
    ELSE IF ns.n_evaluated = 1
    THEN IF stk = <<>> THEN Turn(frames, stk, Err("UnexpectedStackEnd"))
         ELSE IF Last(stk) = Satisfied THEN Turn(frames, Front(stk), Cont)
         ELSE Turn(frames, Front(stk), Err("VerifyFailed"))
    ELSE Turn(frames, stk, Err("CouldNotEvaluate"))

step_ZeroNotEqual(frames, ns, stk) ==
    IF ns.n_evaluated = 0
    THEN Turn(push_evaluation_state(
                  push_evaluation_state(frames, ns.node, 1, 0), ns.node.subs[1], 0, 0),
              stk, Cont)
    ELSE IF ns.n_evaluated = 1
    THEN IF stk = <<>> THEN Turn(frames, stk, Err("UnexpectedStackEnd"))
         ELSE IF Last(stk) = Dissatisfied
              THEN Turn(frames, Append(Front(stk), Dissatisfied), Cont)
              ELSE Turn(frames, Append(Front(stk), Satisfied), Cont)
    ELSE Turn(frames, stk, Err("CouldNotEvaluate"))

step_NonZero(frames, ns, stk) ==
    IF stk = <<>> THEN Turn(frames, stk, Err("UnexpectedStackEnd"))
    ELSE IF Last(stk) = Dissatisfied THEN Turn(frames, stk, Cont)
    ELSE Turn(push_evaluation_state(frames, ns.node.subs[1], 0, 0), stk, Cont)

\* step_AndV with the two pushes exchanged: right is evaluated first
step_AndV_right_first(frames, ns, stk) ==
    LET left == ns.node.subs[1]
        right == ns.node.subs[2]
    IN  Turn(push_evaluation_state(
                 push_evaluation_state(frames, left, 0, 0), right, 0, 0),
             stk, Cont)

step_AndV(frames, ns, stk) ==
    LET left == ns.node.subs[1]
        right == ns.node.subs[2]
    IN  Turn(push_evaluation_state(
                 push_evaluation_state(frames, right, 0, 0), left, 0, 0),
             stk, Cont)

\* the first two visits of OrB and AndB
step_OrB_AndB(frames, ns, stk) ==
    LET left == ns.node.subs[1]
        right == ns.node.subs[2]
        rest == Front(stk)
    IN  IF ns.n_evaluated = 0
        THEN Turn(push_evaluation_state(
                      push_evaluation_state(frames, ns.node, 1, 0), left, 0, 0),
                  stk, Cont)
        ELSE PopBool(frames, stk,
                 Turn(push_evaluation_state(
                          push_evaluation_state(frames, ns.node, 2, 1), right, 0, 0),
                      rest, Cont),
                 Turn(push_evaluation_state(
                          push_evaluation_state(frames, ns.node, 2, 0), right, 0, 0),
                      rest, Cont))

step_AndB_end(frames, ns, stk) ==
    IF stk = <<>> THEN Turn(frames, stk, Err("UnexpectedStackEnd"))
    ELSE IF Last(stk) = Satisfied /\ ns.n_satisfied = 1
         THEN Turn(frames, Append(Front(stk), Satisfied), Cont)
         ELSE Turn(frames, Append(Front(stk), Dissatisfied), Cont)

step_OrB_end(frames, ns, stk) ==
    IF stk = <<>> THEN Turn(frames, stk, Err("UnexpectedStackEnd"))
    ELSE IF Last(stk) = Dissatisfied /\ ns.n_satisfied = 0
         THEN Turn(frames, Append(Front(stk), Dissatisfied), Cont)
         ELSE Turn(frames, Append(Front(stk), Satisfied), Cont)

\* the first visit of AndOr, OrC and OrD
step_Or_first(frames, ns, stk) ==
    Turn(push_evaluation_state(
             push_evaluation_state(frames, ns.node, 1, 0), ns.node.subs[1], 0, 0),
         stk, Cont)

step_OrC(frames, ns, stk) ==
    PopBool(frames, stk,
        Turn(frames, Front(stk), Cont),
        Turn(push_evaluation_state(frames, ns.node.subs[2], 0, 0), Front(stk), Cont))

\* an OrD that evaluates r after a satisfied l as well
step_OrD_both(frames, ns, stk) ==
    PopBool(frames, stk,
        Turn(push_evaluation_state(frames, ns.node.subs[2], 0, 0),
             Append(Front(stk), Satisfied), Cont),
        Turn(push_evaluation_state(frames, ns.node.subs[2], 0, 0), Front(stk), Cont))

step_OrD(frames, ns, stk) ==
    PopBool(frames, stk,
        Turn(frames, Append(Front(stk), Satisfied), Cont),
        Turn(push_evaluation_state(frames, ns.node.subs[2], 0, 0), Front(stk), Cont))

\* step_Select with the branches exchanged: Satisfied selects right
step_Select_exchanged(frames, ns, stk) ==
    LET n == Len(ns.node.subs)
        left == ns.node.subs[n - 1]
        right == ns.node.subs[n]
    IN  PopBool(frames, stk,
            Turn(push_evaluation_state(frames, right, 0, 0), Front(stk), Cont),
            Turn(push_evaluation_state(frames, left, 0, 0), Front(stk), Cont))
\* AndOr(_, left, right) after its first child, and OrI(left, right)
step_Select(frames, ns, stk) ==
    LET n == Len(ns.node.subs)
        left == ns.node.subs[n - 1]
        right == ns.node.subs[n]
    IN  PopBool(frames, stk,
            Turn(push_evaluation_state(frames, left, 0, 0), Front(stk), Cont),
            Turn(push_evaluation_state(frames, right, 0, 0), Front(stk), Cont))

\* step_Thresh that is satisfied by k or more children
step_Thresh_at_least(frames, ns, stk) ==
    LET k == ns.node.n
        subs == ns.node.subs
        rest == Front(stk)
    IN  IF ns.n_evaluated = 0
        THEN Turn(push_evaluation_state(
                      push_evaluation_state(frames, ns.node, 1, 0), subs[1], 0, 0),
                  stk, Cont)
        ELSE IF ns.n_evaluated = Len(subs)
        THEN PopBool(frames, stk,
                 IF ns.n_satisfied >= k - 1
                 THEN Turn(frames, Append(rest, Satisfied), Cont)
                 ELSE Turn(frames, Append(rest, Dissatisfied), Cont),
                 IF ns.n_satisfied >= k
                 THEN Turn(frames, Append(rest, Satisfied), Cont)
                 ELSE Turn(frames, Append(rest, Dissatisfied), Cont))
        ELSE PopBool(frames, stk,
                 Turn(push_evaluation_state(
                          push_evaluation_state(frames, ns.node, ns.n_evaluated + 1,
                                                ns.n_satisfied + 1),
                          subs[ns.n_evaluated + 1], 0, 0),
                      rest, Cont),
                 Turn(push_evaluation_state(
                          push_evaluation_state(frames, ns.node, ns.n_evaluated + 1,
                                                ns.n_satisfied),
                          subs[ns.n_evaluated + 1], 0, 0),
                      rest, Cont))
\* a Thresh that evaluates a dissatisfied child once more instead of moving
\* on to the next one
step_Thresh_revisits(frames, ns, stk) ==
    LET k == ns.node.n
        subs == ns.node.subs
        rest == Front(stk)
    IN  IF ns.n_evaluated = 0
        THEN Turn(push_evaluation_state(
                      push_evaluation_state(frames, ns.node, 1, 0), subs[1], 0, 0),
                  stk, Cont)
        ELSE IF ns.n_evaluated = Len(subs)
        THEN PopBool(frames, stk,
                 IF ns.n_satisfied = k - 1
                 THEN Turn(frames, Append(rest, Satisfied), Cont)
                 ELSE Turn(frames, Append(rest, Dissatisfied), Cont),
                 IF ns.n_satisfied = k
                 THEN Turn(frames, Append(rest, Satisfied), Cont)
                 ELSE Turn(frames, Append(rest, Dissatisfied), Cont))
        ELSE PopBool(frames, stk,
                 Turn(push_evaluation_state(
                          push_evaluation_state(frames, ns.node, ns.n_evaluated + 1,
                                                ns.n_satisfied + 1),
                          subs[ns.n_evaluated + 1], 0, 0),
                      rest, Cont),
                 Turn(push_evaluation_state(
                          push_evaluation_state(frames, ns.node, ns.n_evaluated,
                                                ns.n_satisfied),
                          subs[ns.n_evaluated], 0, 0),
                      rest, Cont))

step_Thresh(frames, ns, stk) ==
    LET k == ns.node.n
        subs == ns.node.subs
        rest == Front(stk)
    IN  IF ns.n_evaluated = 0
        THEN Turn(push_evaluation_state(
                      push_evaluation_state(frames, ns.node, 1, 0), subs[1], 0, 0),
                  stk, Cont)
        ELSE IF ns.n_evaluated = Len(subs)
        THEN PopBool(frames, stk,
                 IF ns.n_satisfied = k - 1
                 THEN Turn(frames, Append(rest, Satisfied), Cont)
                 ELSE Turn(frames, Append(rest, Dissatisfied), Cont),
                 IF ns.n_satisfied = k
                 THEN Turn(frames, Append(rest, Satisfied), Cont)
                 ELSE Turn(frames, Append(rest, Dissatisfied), Cont))
        ELSE PopBool(frames, stk,
                 Turn(push_evaluation_state(
                          push_evaluation_state(frames, ns.node, ns.n_evaluated + 1,
                                                ns.n_satisfied + 1),
                          subs[ns.n_evaluated + 1], 0, 0),
                      rest, Cont),
                 Turn(push_evaluation_state(
                          push_evaluation_state(frames, ns.node, ns.n_evaluated + 1,
                                                ns.n_satisfied),
                          subs[ns.n_evaluated + 1], 0, 0),
                      rest, Cont))

\* MultiKeyAt from the first listed key on: subs[n_evaluated]
MultiKeyAt_first_listed(keys, n_evaluated) == keys[n_evaluated + 1]

\* the key a Multi tries on its visit number n_evaluated (from 0):
\* subs[subs.len() - n_evaluated - 1], the last listed key first
MultiKeyAt(keys, n_evaluated) == keys[Len(keys) - n_evaluated]

\* evaluate_multi on the key of this visit, and the frame pushed back
multi_try(frames, ns, stk) ==
    LET ev == evaluate_multi(stk, MultiKeyAt(ns.node.keys, ns.n_evaluated))
    IN  IF IsOk(ev.ret)
        THEN Turn(push_evaluation_state(frames, ns.node, ns.n_evaluated + 1,
                                        ns.n_satisfied + 1),
                  ev.stack, ev.ret)
        ELSE IF ev.ret = Cont
        THEN Turn(push_evaluation_state(frames, ns.node, ns.n_evaluated + 1,
                                        ns.n_satisfied),
                  ev.stack, Cont)
        ELSE Turn(frames, ev.stack, ev.ret)

\* multi_nonsat_form on the element below the top k+1 elements
multi_nonsat_form_below(stk, k) ==
    Len(stk) > k + 1 /\ stk[Len(stk) - (k + 1)] = Dissatisfied

\* whether the first visit of a Multi takes the non-satisfaction form
multi_nonsat_form(stk, k) == Last(stk) = Dissatisfied

\* Terminal::Multi if n_evaluated == 0
step_Multi_first(frames, ns, stk) ==
    LET k == ns.node.n
        len == Len(stk)
    IN  IF len < k + 1 THEN Turn(frames, stk, Err("InsufficientSignaturesMultiSig"))
        ELSE IF multi_nonsat_form(stk, k)
        THEN LET kept == SubSeq(stk, 1, len - (k + 1))
                 sigs == SubSeq(stk, len - (k + 1) + 1, len)
                 nonsat == Cardinality({i \in 1..Len(sigs) : sigs[i] = Dissatisfied})
             IN  IF nonsat = k + 1 THEN Turn(frames, Append(kept, Dissatisfied), Cont)
                 ELSE Turn(frames, kept, Err("MissingExtraZeroMultiSig"))
        ELSE multi_try(frames, ns, stk)

\* step_Multi that leaves the extra zero on the stack
step_Multi_keeps_zero(frames, ns, stk) ==
    LET k == ns.node.n
    IN  IF ns.n_satisfied = k
        THEN IF stk # <<>> /\ Last(stk) = Dissatisfied
             THEN Turn(frames, Append(stk, Satisfied), Cont)
             ELSE Turn(frames, Front(stk), Err("MissingExtraZeroMultiSig"))
        ELSE IF ns.n_evaluated = Len(ns.node.keys)
        THEN Turn(frames, stk, Err("MultiSigEvaluationError"))
        ELSE multi_try(frames, ns, stk)

\* step_Multi that drops the frame when the keys are exhausted
step_Multi_exhausted_continues(frames, ns, stk) ==
    LET k == ns.node.n
    IN  IF ns.n_satisfied = k
        THEN IF stk # <<>> /\ Last(stk) = Dissatisfied
             THEN Turn(frames, Append(Front(stk), Satisfied), Cont)
             ELSE Turn(frames, Front(stk), Err("MissingExtraZeroMultiSig"))
        ELSE IF ns.n_evaluated = Len(ns.node.keys)
        THEN Turn(frames, stk, Cont)
        ELSE multi_try(frames, ns, stk)

\* step_Multi that checks for exhausted keys before it checks for k successes
step_Multi_exhausted_first(frames, ns, stk) ==
    LET k == ns.node.n
    IN  IF ns.n_evaluated = Len(ns.node.keys)
        THEN Turn(frames, stk, Err("MultiSigEvaluationError"))
        ELSE IF ns.n_satisfied = k
        THEN IF stk # <<>> /\ Last(stk) = Dissatisfied
             THEN Turn(frames, Append(Front(stk), Satisfied), Cont)
             ELSE Turn(frames, Front(stk), Err("MissingExtraZeroMultiSig"))
        ELSE multi_try(frames, ns, stk)

\* Terminal::Multi on the later visits
step_Multi(frames, ns, stk) ==
    LET k == ns.node.n
    IN  IF ns.n_satisfied = k
        THEN IF stk # <<>> /\ Last(stk) = Dissatisfied
             THEN Turn(frames, Append(Front(stk), Satisfied), Cont)
             ELSE Turn(frames, Front(stk), Err("MissingExtraZeroMultiSig"))
        ELSE IF ns.n_evaluated = Len(ns.node.keys)
        THEN Turn(frames, stk, Err("MultiSigEvaluationError"))
        ELSE multi_try(frames, ns, stk)

\* One turn of `while let Some(node_state) = self.state.pop()`: frames is the
\* frame stack after the pop, ns the frame popped.
Step(frames, ns, stk, age_, height_) ==
    LET t == ns.node.t
        n == ns.node.n
        ne == ns.n_evaluated
    IN  CASE t = "True" -> Turn(frames, Append(stk, Satisfied), Cont)
          [] t = "False" -> Turn(frames, Append(stk, Dissatisfied), Cont)
          [] t = "PkK" -> Leaf(frames, evaluate_pk(stk, n))
          [] t = "PkH" -> Leaf(frames, evaluate_pkh(stk, n))
          [] t = "After" -> Leaf(frames, evaluate_after(stk, n, age_))
          [] t = "Older" -> Leaf(frames, evaluate_older(stk, n, height_))
          [] t \in {"Sha256", "Hash256", "Hash160", "Ripemd160"} ->
                Leaf(frames, evaluate_hash(stk, t, n))
          [] t \in {"Alt", "Swap", "Check"} ->
                Turn(push_evaluation_state(frames, ns.node.subs[1], 0, 0), stk, Cont)
          [] t = "DupIf" -> step_DupIf(frames, ns, stk)
          [] t = "Verify" -> step_Verify(frames, ns, stk)
          [] t = "ZeroNotEqual" -> step_ZeroNotEqual(frames, ns, stk)
          [] t = "NonZero" -> step_NonZero(frames, ns, stk)
          [] t = "AndV" -> step_AndV(frames, ns, stk)
          [] t \in {"OrB", "AndB"} /\ ne \in {0, 1} -> step_OrB_AndB(frames, ns, stk)
          [] t = "AndB" /\ ne = 2 -> step_AndB_end(frames, ns, stk)
          [] t \in {"AndOr", "OrC", "OrD"} /\ ne = 0 -> step_Or_first(frames, ns, stk)
          [] t = "OrB" /\ ne = 2 -> step_OrB_end(frames, ns, stk)
          [] t = "OrC" /\ ne = 1 -> step_OrC(frames, ns, stk)
          [] t = "OrD" /\ ne = 1 -> step_OrD(frames, ns, stk)
          [] t = "AndOr" /\ ne # 0 -> step_Select(frames, ns, stk)
          [] t = "OrI" -> step_Select(frames, ns, stk)
          [] t = "Thresh" -> step_Thresh(frames, ns, stk)
          [] t = "Multi" /\ ne = 0 -> step_Multi_first(frames, ns, stk)
          [] t = "Multi" /\ ne # 0 -> step_Multi(frames, ns, stk)
          [] OTHER -> Turn(frames, stk, Err("CouldNotEvaluate"))

\* the loop of iter_next, until it returns or the frame stack is empty
RECURSIVE RunFrames(_, _, _, _)
RunFrames(frames, stk, age_, height_) ==
    IF frames = <<>> THEN Turn(frames, stk, Cont)
    ELSE CHOOSE end \in
             {IF turn.ret = Cont THEN RunFrames(turn.state, turn.stack, age_, height_)
              ELSE turn :
                  turn \in {Step(Front(frames), Last(frames), stk, age_, height_)}} : TRUE

\* end_of_script without `&& self.stack.is_empty()`
end_of_script_top_only(stk) ==
    IF stk # <<>> /\ Last(stk) = Satisfied
    THEN [stack |-> Front(stk), ret |-> None]
    ELSE [stack |-> Front(stk), ret |-> Err("ScriptSatisfactionError")]

\* what iter_next does once the frame stack is empty, in a script context:
\* the stack must hold exactly one Satisfied
end_of_script(stk) ==
    IF stk # <<>> /\ Last(stk) = Satisfied /\ Front(stk) = <<>>
    THEN [stack |-> Front(stk), ret |-> None]
    ELSE [stack |-> Front(stk), ret |-> Err("ScriptSatisfactionError")]

\* end_of_key without `self.public_key = None`
end_of_key_keeps_key(stk, pk) ==
    IF stk # <<>> /\ Last(stk).e = "Push"
    THEN LET sig == verify_sersig(pk, Last(stk).v)
         IN  IF IsOk(sig)
             THEN [stack |-> Append(Front(stk), Satisfied), public_key |-> <<pk>>,
                   ret |-> Ok("PublicKey", pk, sig.sig)]
             ELSE [stack |-> Front(stk), public_key |-> <<pk>>,
                   ret |-> ErrAt("PkEvaluationError", pk)]
    ELSE [stack |-> Front(stk), public_key |-> <<pk>>, ret |-> Err("UnexpectedStackEnd")]

\* what iter_next does once the frame stack is empty, in a key-only context
end_of_key(stk, pk) ==
    IF stk # <<>> /\ Last(stk).e = "Push"
    THEN LET sig == verify_sersig(pk, Last(stk).v)
         IN  IF IsOk(sig)
             THEN [stack |-> Append(Front(stk), Satisfied), public_key |-> <<>>,
                   ret |-> Ok("PublicKey", pk, sig.sig)]
             ELSE [stack |-> Front(stk), public_key |-> <<pk>>,
                   ret |-> ErrAt("PkEvaluationError", pk)]
    ELSE [stack |-> Front(stk), public_key |-> <<pk>>, ret |-> Err("UnexpectedStackEnd")]

\* Iter::iter_next: the Iter's new fields and the value returned
iter_next(frames, stk, pubkey, age_, height_) ==
    CHOOSE res \in
        {IF run.ret # Cont
         THEN [state |-> run.state, stack |-> run.stack, public_key |-> pubkey,
               ret |-> run.ret]
         ELSE IF pubkey # <<>>
         THEN LET e == end_of_key(run.stack, pubkey[1])
              IN  [state |-> run.state, stack |-> e.stack, public_key |-> e.public_key,
                   ret |-> e.ret]
         ELSE LET e == end_of_script(run.stack)
              IN  [state |-> run.state, stack |-> e.stack, public_key |-> pubkey,
                   ret |-> e.ret] :
             run \in {RunFrames(frames, stk, age_, height_)}} : TRUE

\* a frame as it is popped: the kind of its node, the number of the node's
\* children or keys, and the two counters
Visit(ns) ==
    [t |-> ns.node.t,
     width |-> IF ns.node.t = "Multi" THEN Len(ns.node.keys) ELSE Len(ns.node.subs),
     n_evaluated |-> ns.n_evaluated,
     n_satisfied |-> ns.n_satisfied]

\* the frames one call of iter_next pops: `while let Some(node_state) =
\* self.state.pop()` until a turn returns or the frame stack is empty
RECURSIVE FramesPopped(_, _, _, _)
FramesPopped(frames, stk, age_, height_) ==
    IF frames = <<>> THEN <<>>
    ELSE CHOOSE all \in
             {<<Visit(Last(frames))>> \o
                  (IF turn.ret = Cont
                   THEN FramesPopped(turn.state, turn.stack, age_, height_)
                   ELSE <<>>) :
                  turn \in {Step(Front(frames), Last(frames), stk, age_, height_)}} : TRUE

\* Iter_next without the latch: has_errored is never set
Iter_next_unlatched(errored, frames, stk, pubkey, age_, height_) ==
    IF errored
    THEN [state |-> frames, stack |-> stk, public_key |-> pubkey,
          has_errored |-> TRUE, ret |-> None, popped |-> <<>>]
    ELSE CHOOSE it \in
             {[state |-> res.state, stack |-> res.stack, public_key |-> res.public_key,
               has_errored |-> FALSE, ret |-> res.ret,
               popped |-> FramesPopped(frames, stk, age_, height_)] :
                  res \in {iter_next(frames, stk, pubkey, age_, height_)}} : TRUE

\* Iterator::next of Iter: the Iter's new fields and the value returned; once
\* an error has been returned the iterator only returns None
Iter_next(errored, frames, stk, pubkey, age_, height_) ==
    IF errored
    THEN [state |-> frames, stack |-> stk, public_key |-> pubkey,
          has_errored |-> TRUE, ret |-> None, popped |-> <<>>]
    ELSE CHOOSE it \in
             {[state |-> res.state, stack |-> res.stack, public_key |-> res.public_key,
               has_errored |-> IsErr(res.ret), ret |-> res.ret,
               popped |-> FramesPopped(frames, stk, age_, height_)] :
                  res \in {iter_next(frames, stk, pubkey, age_, height_)}} : TRUE

----------------------------------------------------------------------------
(* satisfy.rs: the lookup table (trait Satisfier), Witness and Satisfaction *)

Keys == 0..4
Hashlocks == {"Sha256", "Hash256", "Ripemd160", "Hash160"}

\* Option<T>: the empty sequence is None, <<x>> is Some(x)
OptNone == <<>>
Some(x) == <<x>>

BitcoinSig(sig, hashtype) == [sig |-> sig, hashtype |-> hashtype]

\* trait Satisfier: the table answers each query with an Option or a bool
lookup_sig(stfr, pk) == stfr.sig[pk]
lookup_pkh_pk(stfr, pkh) == stfr.pkh_pk[pkh]
lookup_pkh_sig(stfr, pkh) == stfr.pkh_sig[pkh]
lookup_preimage(stfr, hashlock, h) ==
    IF <<hashlock, h>> \in stfr.preimages THEN Some(Preimage(h)) ELSE OptNone
check_older(stfr, t) == t \in stfr.older
check_after(stfr, t) == t \in stfr.after

Witness_Stack(v) == [w |-> "Stack", v |-> v]
Witness_Unavailable == [w |-> "Unavailable", v |-> <<>>]
Witness_Impossible == [w |-> "Impossible", v |-> <<>>]
\* a failed assert!: the panic unwinds through every caller
Witness_Panic == [w |-> "Panic", v |-> <<>>]

\* util::witness_size: each element's length and the byte that heads it
RECURSIVE witness_size(_)
witness_size(v) ==
    IF v = <<>> THEN 0 ELSE 1 + Len(v[1]) + witness_size(Tail(v))

\* impl Ord for Witness
Witness_cmp(a, b) ==
    CASE a.w = "Stack" /\ b.w = "Stack" ->
             IF witness_size(a.v) < witness_size(b.v) THEN "Less"
             ELSE IF witness_size(a.v) > witness_size(b.v) THEN "Greater"
             ELSE "Equal"
      [] a.w = "Stack" /\ b.w # "Stack" -> "Less"
      [] a.w # "Stack" /\ b.w = "Stack" -> "Greater"
      [] a.w = "Impossible" /\ b.w = "Unavailable" -> "Less"
      [] a.w = "Unavailable" /\ b.w = "Impossible" -> "Greater"
      [] OTHER -> "Equal"

\* cmp::min: the first argument unless the second is less
cmp_min(a, b) == IF Witness_cmp(a, b) = "Greater" THEN b ELSE a

Witness_signature(stfr, pk) ==
    IF lookup_sig(stfr, pk) # OptNone
    THEN LET s == lookup_sig(stfr, pk)[1]
         IN  Witness_Stack(<<Append(s.sig, s.hashtype)>>)
    ELSE Witness_Impossible

Witness_pkh_public_key(stfr, pkh) ==
    IF lookup_pkh_pk(stfr, pkh) # OptNone
    THEN Witness_Stack(<<to_bytes(lookup_pkh_pk(stfr, pkh)[1])>>)
    ELSE Witness_Unavailable

Witness_pkh_signature(stfr, pkh) ==
    IF lookup_pkh_sig(stfr, pkh) # OptNone
    THEN LET e == lookup_pkh_sig(stfr, pkh)[1]
         IN  Witness_Stack(<<Append(e.sig.sig, e.sig.hashtype), to_bytes(e.pk)>>)
    ELSE Witness_Impossible

\* ripemd160_preimage, hash160_preimage, sha256_preimage, hash256_preimage
Witness_preimage(stfr, hashlock, h) ==
    IF lookup_preimage(stfr, hashlock, h) # OptNone
    THEN Witness_Stack(<<lookup_preimage(stfr, hashlock, h)[1]>>)
    ELSE Witness_Unavailable

Witness_hash_dissatisfaction == Witness_Stack(<<[i \in 1..PreimageLen |-> 0]>>)
Witness_empty == Witness_Stack(<<>>)
Witness_push_1 == Witness_Stack(<<<<1>>>>)
Witness_push_0 == Witness_Stack(<<<<>>>>)

\* Witness::combine with `b.extend(a)` for `a.extend(b)`
Witness_combine_reversed(one, two) ==
    IF one.w = "Panic" \/ two.w = "Panic" THEN Witness_Panic
    ELSE IF one.w = "Impossible" \/ two.w = "Impossible" THEN Witness_Impossible
    ELSE IF one.w = "Unavailable" \/ two.w = "Unavailable" THEN Witness_Unavailable
    ELSE Witness_Stack(two.v \o one.v)

Witness_combine(one, two) ==
    IF one.w = "Panic" \/ two.w = "Panic" THEN Witness_Panic
    ELSE IF one.w = "Impossible" \/ two.w = "Impossible" THEN Witness_Impossible
    ELSE IF one.w = "Unavailable" \/ two.w = "Unavailable" THEN Witness_Unavailable
    ELSE Witness_Stack(one.v \o two.v)

Satisfaction(stack_, has_sig_) == [stack |-> stack_, has_sig |-> has_sig_]
Panicked == Satisfaction(Witness_Panic, FALSE)

\* assert!(cond) before the value
assert_ok(cond, value) == IF cond THEN value ELSE Panicked

\* minimum that keeps the signature when only one candidate has one
minimum_of_signed(sat1, sat2) ==
    IF sat1.stack.w = "Impossible" THEN sat2
    ELSE IF sat2.stack.w = "Impossible" THEN sat1
    ELSE CASE ~sat1.has_sig /\ ~sat2.has_sig -> Satisfaction(Witness_Unavailable, FALSE)
           [] ~sat1.has_sig /\ sat2.has_sig -> Satisfaction(sat2.stack, TRUE)
           [] sat1.has_sig /\ ~sat2.has_sig -> Satisfaction(sat1.stack, TRUE)
           [] OTHER -> Satisfaction(cmp_min(sat1.stack, sat2.stack), TRUE)

\* minimum that takes the cheaper of two satisfactions without a signature
minimum_of_unsigned(sat1, sat2) ==
    IF sat1.stack.w = "Impossible" THEN sat2
    ELSE IF sat2.stack.w = "Impossible" THEN sat1
    ELSE CASE ~sat1.has_sig /\ ~sat2.has_sig ->
                  Satisfaction(cmp_min(sat1.stack, sat2.stack), FALSE)
           [] ~sat1.has_sig /\ sat2.has_sig -> Satisfaction(sat1.stack, FALSE)
           [] sat1.has_sig /\ ~sat2.has_sig -> Satisfaction(sat2.stack, FALSE)
           [] OTHER -> Satisfaction(cmp_min(sat1.stack, sat2.stack), TRUE)

\* Satisfaction::minimum
minimum(sat1, sat2) ==
    IF sat1.stack.w = "Impossible" THEN sat2
    ELSE IF sat2.stack.w = "Impossible" THEN sat1
    ELSE CASE ~sat1.has_sig /\ ~sat2.has_sig -> Satisfaction(Witness_Unavailable, FALSE)
           [] ~sat1.has_sig /\ sat2.has_sig -> Satisfaction(sat1.stack, FALSE)
           [] sat1.has_sig /\ ~sat2.has_sig -> Satisfaction(sat2.stack, FALSE)
           [] OTHER -> Satisfaction(cmp_min(sat1.stack, sat2.stack), TRUE)

\* Satisfaction::minimum_mall
minimum_mall(sat1, sat2) ==
    IF sat1.stack.w \in {"Impossible", "Unavailable"} THEN sat2
    ELSE IF sat2.stack.w \in {"Impossible", "Unavailable"} THEN sat1
    ELSE Satisfaction(cmp_min(sat1.stack, sat2.stack), sat1.has_sig /\ sat2.has_sig)

\* min_fn: minimum under satisfy, minimum_mall under satisfy_mall
min_fn(mall, sat1, sat2) ==
    IF sat1.stack.w = "Panic" \/ sat2.stack.w = "Panic" THEN Panicked
    ELSE IF mall THEN minimum_mall(sat1, sat2)
    ELSE minimum(sat1, sat2)

----------------------------------------------------------------------------
(* satisfy.rs: satisfy_helper, dissatisfy_helper, thresh and thresh_mall.  *)
(* The flag mall stands for the pair (min_fn, thresh_fn): FALSE is         *)
(* (minimum, thresh), TRUE is (minimum_mall, thresh_mall).                 *)

\* the key of sort_by_key: i64::MAX and i64::MIN are the classes 1 and -1
stack_weight(sat, dissat) ==
    IF sat.stack.w # "Stack" THEN [class |-> 1, w |-> 0]
    ELSE IF dissat.stack.w # "Stack" THEN [class |-> -1, w |-> 0]
    ELSE [class |-> 0, w |-> witness_size(sat.stack.v) - witness_size(dissat.stack.v)]

\* the order of the tuples (is_impossible, has_sig, stack_weight)
key_less(x, y) ==
    \/ ~x.is_impossible /\ y.is_impossible
    \/ /\ x.is_impossible = y.is_impossible
       /\ \/ ~x.has_sig /\ y.has_sig
          \/ /\ x.has_sig = y.has_sig
             /\ \/ x.weight.class < y.weight.class
                \/ x.weight.class = y.weight.class /\ x.weight.w < y.weight.w

\* slice::sort_by_key, a stable sort: the indices in the order of their keys
sort_by_key(keys) ==
    LET n == Len(keys)
        before(j, i) == key_less(keys[j], keys[i])
                            \/ (~key_less(keys[i], keys[j]) /\ j < i)
        place(i) == 1 + Cardinality({j \in 1..n : j # i /\ before(j, i)})
    IN  [p \in 1..n |-> CHOOSE i \in 1..n : place(i) = p]

\* ret_stack.into_iter().fold(Witness::empty(), |acc, next| combine(next.stack, acc))
RECURSIVE fold_combine(_, _)
fold_combine(ret_stack, i) ==
    IF i = 0 THEN Witness_empty
    ELSE Witness_combine(ret_stack[i].stack, fold_combine(ret_stack, i - 1))

\* thresh_choose without the sort: the first k children are satisfied
thresh_choose_unsorted(k, sats0, ret_stack0) ==
    LET n == Len(sats0)
        sat_indices == [i \in 1..n |-> i]
        swapped == {sat_indices[i] : i \in 1..k}
        ret_stack == [i \in 1..n |-> IF i \in swapped THEN sats0[i] ELSE ret_stack0[i]]
        sats == [i \in 1..n |-> IF i \in swapped THEN ret_stack0[i] ELSE sats0[i]]
    IN  IF \E i \in 1..n : sats0[i].stack.w = "Panic" \/ ret_stack0[i].stack.w = "Panic"
        THEN Panicked
        ELSE IF sats[sat_indices[k]].stack = Witness_Impossible
        THEN Satisfaction(Witness_Impossible, FALSE)
        ELSE IF /\ k < n
                /\ ~sats[sat_indices[k + 1]].has_sig
                /\ sats[sat_indices[k + 1]].stack # Witness_Impossible
        THEN Satisfaction(Witness_Unavailable, FALSE)
        ELSE Satisfaction(fold_combine(ret_stack, n),
                          \E i \in 1..n : ret_stack[i].has_sig)

\* Satisfaction::thresh after sats and ret_stack have been collected
thresh_choose(k, sats0, ret_stack0) ==
    LET n == Len(sats0)
        sat_indices ==
            sort_by_key([i \in 1..n |->
                [is_impossible |-> sats0[i].stack = Witness_Impossible,
                 has_sig |-> sats0[i].has_sig,
                 weight |-> stack_weight(sats0[i], ret_stack0[i])]])
        swapped == {sat_indices[i] : i \in 1..k}
        ret_stack == [i \in 1..n |-> IF i \in swapped THEN sats0[i] ELSE ret_stack0[i]]
        sats == [i \in 1..n |-> IF i \in swapped THEN ret_stack0[i] ELSE sats0[i]]
    IN  IF \E i \in 1..n : sats0[i].stack.w = "Panic" \/ ret_stack0[i].stack.w = "Panic"
        THEN Panicked
        ELSE IF sats[sat_indices[k]].stack = Witness_Impossible
        THEN Satisfaction(Witness_Impossible, FALSE)
        ELSE IF /\ k < n
                /\ ~sats[sat_indices[k + 1]].has_sig
                /\ sats[sat_indices[k + 1]].stack # Witness_Impossible
        THEN assert_ok(\A i \in 1..n : ~ret_stack[i].has_sig,
                    Satisfaction(Witness_Unavailable, FALSE))
        ELSE Satisfaction(fold_combine(ret_stack, n),
                          \E i \in 1..n : ret_stack[i].has_sig)

\* Satisfaction::thresh_mall after sats and ret_stack have been collected
thresh_mall_choose(k, sats0, ret_stack0) ==
    LET n == Len(sats0)
        sat_indices ==
            sort_by_key([i \in 1..n |->
                [is_impossible |-> FALSE,
                 has_sig |-> FALSE,
                 weight |-> stack_weight(sats0[i], ret_stack0[i])]])
        swapped == {sat_indices[i] : i \in 1..k}
        ret_stack == [i \in 1..n |-> IF i \in swapped THEN sats0[i] ELSE ret_stack0[i]]
    IN  IF \E i \in 1..n : sats0[i].stack.w = "Panic" \/ ret_stack0[i].stack.w = "Panic"
        THEN Panicked
        ELSE Satisfaction(fold_combine(ret_stack, n),
                          \E i \in 1..n : ret_stack[i].has_sig)

\* the signatures a Multi has, in the order of its keys
RECURSIVE multi_sigs(_, _)
multi_sigs(stfr, keys) ==
    IF keys = <<>> THEN <<>>
    ELSE IF Witness_signature(stfr, Head(keys)).w = "Stack"
    THEN <<Witness_signature(stfr, Head(keys)).v>> \o multi_sigs(stfr, Tail(keys))
    ELSE multi_sigs(stfr, Tail(keys))

\* sigs.iter().enumerate().max_by_key(|&(_, ref v)| v.len()): the last of the
\* stacks with the most elements
max_idx(sigs) ==
    CHOOSE i \in 1..Len(sigs) :
        /\ \A j \in 1..Len(sigs) : Len(sigs[j]) <= Len(sigs[i])
        /\ \A j \in (i + 1)..Len(sigs) : Len(sigs[j]) < Len(sigs[i])

\* `for _ in 0..sig_count - k { sigs[max_idx] = vec![]; }`
RECURSIVE throw_away(_, _)
throw_away(sigs, n) ==
    IF n = 0 THEN sigs
    ELSE throw_away([sigs EXCEPT ![max_idx(sigs)] = <<>>], n - 1)

\* sigs.into_iter().fold(Witness::push_0(), |acc, sig| combine(acc, Stack(sig)))
RECURSIVE fold_sigs(_, _)
fold_sigs(sigs, i) ==
    IF i = 0 THEN Witness_push_0
    ELSE Witness_combine(fold_sigs(sigs, i - 1), Witness_Stack(sigs[i]))

satisfy_Multi(k, keys, stfr) ==
    CHOOSE sat \in
        {IF Len(sigs) < k THEN Satisfaction(Witness_Impossible, FALSE)
         ELSE Satisfaction(fold_sigs(throw_away(sigs, Len(sigs) - k), Len(sigs)), TRUE) :
             sigs \in {multi_sigs(stfr, keys)}} : TRUE

RECURSIVE satisfy_helper(_, _, _, _)
RECURSIVE dissatisfy_helper(_, _, _, _)
RECURSIVE sats_of(_, _, _, _)
RECURSIVE dissats_of(_, _, _, _)

\* subs.iter().map(|s| satisfy_helper(..)).collect()
sats_of(subs, stfr, root_has_sig_, mall) ==
    IF subs = <<>> THEN <<>>
    ELSE <<satisfy_helper(Head(subs), stfr, root_has_sig_, mall)>>
             \o sats_of(Tail(subs), stfr, root_has_sig_, mall)

\* subs.iter().map(|s| dissatisfy_helper(..)).collect()
dissats_of(subs, stfr, root_has_sig_, mall) ==
    IF subs = <<>> THEN <<>>
    ELSE <<dissatisfy_helper(Head(subs), stfr, root_has_sig_, mall)>>
             \o dissats_of(Tail(subs), stfr, root_has_sig_, mall)

\* Satisfaction::thresh
thresh(k, subs, stfr, root_has_sig_) ==
    CHOOSE sat \in
        {thresh_choose(k, sats, ret_stack) :
             sats \in {sats_of(subs, stfr, root_has_sig_, FALSE)},
             ret_stack \in {dissats_of(subs, stfr, root_has_sig_, FALSE)}} : TRUE

\* Satisfaction::thresh_mall
thresh_mall(k, subs, stfr, root_has_sig_) ==
    CHOOSE sat \in
        {thresh_mall_choose(k, sats, ret_stack) :
             sats \in {sats_of(subs, stfr, root_has_sig_, TRUE)},
             ret_stack \in {dissats_of(subs, stfr, root_has_sig_, TRUE)}} : TRUE

thresh_fn(mall, k, subs, stfr, root_has_sig_) ==
    IF mall THEN thresh_mall(k, subs, stfr, root_has_sig_)
    ELSE thresh(k, subs, stfr, root_has_sig_)

\* satisfy_helper with root_has_sig = false handed to the recursive calls: the
\* flag governs a timelock at the root only
satisfy_helper_flag_dropped(term, stfr, root_has_sig_, mall) ==
    LET t == term.t
        sub(i) == term.subs[i]
        sat_(x) == satisfy_helper(x, stfr, FALSE, mall)
        nsat_(x) == dissatisfy_helper(x, stfr, root_has_sig_, mall)
    IN  CASE t = "PkK" -> Satisfaction(Witness_signature(stfr, term.n), TRUE)
          [] t = "PkH" -> Satisfaction(Witness_pkh_signature(stfr, term.n), TRUE)
          [] t = "After" ->
               Satisfaction(IF check_after(stfr, term.n) THEN Witness_empty
                            ELSE IF root_has_sig_ THEN Witness_Impossible
                            ELSE Witness_Unavailable,
                            FALSE)
          [] t = "Older" ->
               Satisfaction(IF check_older(stfr, term.n) THEN Witness_empty
                            ELSE IF root_has_sig_ THEN Witness_Impossible
                            ELSE Witness_Unavailable,
                            FALSE)
          [] t \in Hashlocks -> Satisfaction(Witness_preimage(stfr, t, term.n), FALSE)
          [] t = "True" -> Satisfaction(Witness_empty, FALSE)
          [] t = "False" -> Satisfaction(Witness_Impossible, FALSE)
          [] t \in {"Alt", "Swap", "Check", "Verify", "NonZero", "ZeroNotEqual"} ->
               sat_(sub(1))
          [] t = "DupIf" ->
               CHOOSE ret \in
                   {Satisfaction(Witness_combine(sat.stack, Witness_push_1), sat.has_sig) :
                        sat \in {sat_(sub(1))}} : TRUE
          [] t \in {"AndV", "AndB"} ->
               CHOOSE ret \in
                   {Satisfaction(Witness_combine(r_sat.stack, l_sat.stack),
                                 l_sat.has_sig \/ r_sat.has_sig) :
                        l_sat \in {sat_(sub(1))}, r_sat \in {sat_(sub(2))}} : TRUE
          [] t = "AndOr" ->
               CHOOSE ret \in
                   {min_fn(mall, one, two) :
                        one \in {Satisfaction(Witness_combine(b_sat.stack, a_sat.stack),
                                              a_sat.has_sig \/ b_sat.has_sig) :
                                     a_sat \in {sat_(sub(1))}, b_sat \in {sat_(sub(2))}},
                        two \in {Satisfaction(Witness_combine(c_sat.stack, a_nsat.stack),
                                              a_nsat.has_sig \/ c_sat.has_sig) :
                                     a_nsat \in {nsat_(sub(1))}, c_sat \in {sat_(sub(3))}}} : TRUE
          [] t = "OrB" ->
               CHOOSE ret \in
                   {assert_ok(~l_nsat.has_sig /\ ~r_nsat.has_sig,
                        min_fn(mall,
                               Satisfaction(Witness_combine(r_sat.stack, l_nsat.stack),
                                            r_sat.has_sig),
                               Satisfaction(Witness_combine(r_nsat.stack, l_sat.stack),
                                            l_sat.has_sig))) :
                        l_sat \in {sat_(sub(1))}, r_sat \in {sat_(sub(2))},
                        l_nsat \in {nsat_(sub(1))}, r_nsat \in {nsat_(sub(2))}} : TRUE
          [] t \in {"OrD", "OrC"} ->
               CHOOSE ret \in
                   {assert_ok(~l_nsat.has_sig,
                        min_fn(mall, l_sat,
                               Satisfaction(Witness_combine(r_sat.stack, l_nsat.stack),
                                            r_sat.has_sig))) :
                        l_sat \in {sat_(sub(1))}, r_sat \in {sat_(sub(2))},
                        l_nsat \in {nsat_(sub(1))}} : TRUE
          [] t = "OrI" ->
               CHOOSE ret \in
                   {min_fn(mall,
                           Satisfaction(Witness_combine(l_sat.stack, Witness_push_1),
                                        l_sat.has_sig),
                           Satisfaction(Witness_combine(r_sat.stack, Witness_push_0),
                                        r_sat.has_sig)) :
                        l_sat \in {sat_(sub(1))}, r_sat \in {sat_(sub(2))}} : TRUE
          [] t = "Thresh" -> thresh_fn(mall, term.n, term.subs, stfr, root_has_sig_)
          [] t = "Multi" -> satisfy_Multi(term.n, term.keys, stfr)

\* Satisfaction::satisfy_helper
satisfy_helper(term, stfr, root_has_sig_, mall) ==
    LET t == term.t
        sub(i) == term.subs[i]
        sat_(x) == satisfy_helper(x, stfr, root_has_sig_, mall)
        nsat_(x) == dissatisfy_helper(x, stfr, root_has_sig_, mall)
    IN  CASE t = "PkK" -> Satisfaction(Witness_signature(stfr, term.n), TRUE)
          [] t = "PkH" -> Satisfaction(Witness_pkh_signature(stfr, term.n), TRUE)
          [] t = "After" ->
               Satisfaction(IF check_after(stfr, term.n) THEN Witness_empty
                            ELSE IF root_has_sig_ THEN Witness_Impossible
                            ELSE Witness_Unavailable,
                            FALSE)
          [] t = "Older" ->
               Satisfaction(IF check_older(stfr, term.n) THEN Witness_empty
                            ELSE IF root_has_sig_ THEN Witness_Impossible
                            ELSE Witness_Unavailable,
                            FALSE)
          [] t \in Hashlocks -> Satisfaction(Witness_preimage(stfr, t, term.n), FALSE)
          [] t = "True" -> Satisfaction(Witness_empty, FALSE)
          [] t = "False" -> Satisfaction(Witness_Impossible, FALSE)
          [] t \in {"Alt", "Swap", "Check", "Verify", "NonZero", "ZeroNotEqual"} ->
               sat_(sub(1))
          [] t = "DupIf" ->
               CHOOSE ret \in
                   {Satisfaction(Witness_combine(sat.stack, Witness_push_1), sat.has_sig) :
                        sat \in {sat_(sub(1))}} : TRUE
          [] t \in {"AndV", "AndB"} ->
               CHOOSE ret \in
                   {Satisfaction(Witness_combine(r_sat.stack, l_sat.stack),
                                 l_sat.has_sig \/ r_sat.has_sig) :
                        l_sat \in {sat_(sub(1))}, r_sat \in {sat_(sub(2))}} : TRUE
          [] t = "AndOr" ->
               CHOOSE ret \in
                   {min_fn(mall, one, two) :
                        one \in {Satisfaction(Witness_combine(b_sat.stack, a_sat.stack),
                                              a_sat.has_sig \/ b_sat.has_sig) :
                                     a_sat \in {sat_(sub(1))}, b_sat \in {sat_(sub(2))}},
                        two \in {Satisfaction(Witness_combine(c_sat.stack, a_nsat.stack),
                                              a_nsat.has_sig \/ c_sat.has_sig) :
                                     a_nsat \in {nsat_(sub(1))}, c_sat \in {sat_(sub(3))}}} : TRUE
          [] t = "OrB" ->
               CHOOSE ret \in
                   {assert_ok(~l_nsat.has_sig /\ ~r_nsat.has_sig,
                        min_fn(mall,
                               Satisfaction(Witness_combine(r_sat.stack, l_nsat.stack),
                                            r_sat.has_sig),
                               Satisfaction(Witness_combine(r_nsat.stack, l_sat.stack),
                                            l_sat.has_sig))) :
                        l_sat \in {sat_(sub(1))}, r_sat \in {sat_(sub(2))},
                        l_nsat \in {nsat_(sub(1))}, r_nsat \in {nsat_(sub(2))}} : TRUE
          [] t \in {"OrD", "OrC"} ->
               CHOOSE ret \in
                   {assert_ok(~l_nsat.has_sig,
                        min_fn(mall, l_sat,
                               Satisfaction(Witness_combine(r_sat.stack, l_nsat.stack),
                                            r_sat.has_sig))) :
                        l_sat \in {sat_(sub(1))}, r_sat \in {sat_(sub(2))},
                        l_nsat \in {nsat_(sub(1))}} : TRUE
          [] t = "OrI" ->
               CHOOSE ret \in
                   {min_fn(mall,
                           Satisfaction(Witness_combine(l_sat.stack, Witness_push_1),
                                        l_sat.has_sig),
                           Satisfaction(Witness_combine(r_sat.stack, Witness_push_0),
                                        r_sat.has_sig)) :
                        l_sat \in {sat_(sub(1))}, r_sat \in {sat_(sub(2))}} : TRUE
          [] t = "Thresh" -> thresh_fn(mall, term.n, term.subs, stfr, root_has_sig_)
          [] t = "Multi" -> satisfy_Multi(term.n, term.keys, stfr)

\* the two Satisfactions satisfy_helper hands to min_fn at a term that is a
\* choice between two branches
min_fn_args(term, stfr, root_has_sig_, mall) ==
    LET t == term.t
        sat_(i) == satisfy_helper(term.subs[i], stfr, root_has_sig_, mall)
        nsat_(i) == dissatisfy_helper(term.subs[i], stfr, root_has_sig_, mall)
    IN  CASE t = "AndOr" ->
                 <<Satisfaction(Witness_combine(sat_(2).stack, sat_(1).stack),
                                sat_(1).has_sig \/ sat_(2).has_sig),
                   Satisfaction(Witness_combine(sat_(3).stack, nsat_(1).stack),
                                nsat_(1).has_sig \/ sat_(3).has_sig)>>
          [] t = "OrB" ->
                 <<Satisfaction(Witness_combine(sat_(2).stack, nsat_(1).stack),
                                sat_(2).has_sig),
                   Satisfaction(Witness_combine(nsat_(2).stack, sat_(1).stack),
                                sat_(1).has_sig)>>
          [] t \in {"OrD", "OrC"} ->
                 <<sat_(1),
                   Satisfaction(Witness_combine(sat_(2).stack, nsat_(1).stack),
                                sat_(2).has_sig)>>
          [] t = "OrI" ->
                 <<Satisfaction(Witness_combine(sat_(1).stack, Witness_push_1),
                                sat_(1).has_sig),
                   Satisfaction(Witness_combine(sat_(2).stack, Witness_push_0),
                                sat_(2).has_sig)>>

\* the two dissatisfactions dissatisfy_helper hands to min_fn at an OrI
min_fn_dissats(term, stfr, root_has_sig_, mall) ==
    LET nsat_(i) == dissatisfy_helper(term.subs[i], stfr, root_has_sig_, mall)
    IN  <<Satisfaction(Witness_combine(nsat_(1).stack, Witness_push_1), nsat_(1).has_sig),
          Satisfaction(Witness_combine(nsat_(2).stack, Witness_push_0), nsat_(2).has_sig)>>

\* the fold of dissatisfy_helper's Thresh arm, with its assert
RECURSIVE fold_dissats(_, _)
fold_dissats(nsats, i) ==
    IF i = 0 THEN Witness_empty
    ELSE IF nsats[i].has_sig THEN Witness_Panic
    ELSE Witness_combine(nsats[i].stack, fold_dissats(nsats, i - 1))

\* dissatisfy_helper with DupIf moved to the arm of Verify: its dissatisfaction
\* is Impossible instead of push_0
dissatisfy_helper_DupIf_impossible(term, stfr, root_has_sig_, mall) ==
    LET t == term.t
        sub(i) == term.subs[i]
        sat_(x) == satisfy_helper(x, stfr, root_has_sig_, mall)
        nsat_(x) == dissatisfy_helper(x, stfr, root_has_sig_, mall)
    IN  CASE t = "PkK" -> Satisfaction(Witness_push_0, FALSE)
          [] t = "PkH" ->
               Satisfaction(Witness_combine(Witness_push_0,
                                            Witness_pkh_public_key(stfr, term.n)),
                            FALSE)
          [] t = "False" -> Satisfaction(Witness_empty, FALSE)
          [] t \in {"True", "Older", "After"} -> Satisfaction(Witness_Impossible, FALSE)
          [] t \in Hashlocks -> Satisfaction(Witness_hash_dissatisfaction, FALSE)
          [] t \in {"Alt", "Swap", "Check", "ZeroNotEqual"} -> nsat_(sub(1))
          [] t = "NonZero" -> Satisfaction(Witness_push_0, FALSE)
          [] t \in {"DupIf", "Verify"} -> Satisfaction(Witness_Impossible, FALSE)
          [] t = "AndV" ->
               CHOOSE ret \in
                   {Satisfaction(Witness_combine(odissat.stack, vsat.stack),
                                 vsat.has_sig \/ odissat.has_sig) :
                        vsat \in {sat_(sub(1))}, odissat \in {nsat_(sub(2))}} : TRUE
          [] t \in {"AndB", "OrB", "OrD", "AndOr"} ->
               CHOOSE ret \in
                   {Satisfaction(Witness_combine(rnsat.stack, lnsat.stack),
                                 rnsat.has_sig \/ lnsat.has_sig) :
                        lnsat \in {nsat_(sub(1))},
                        rnsat \in {nsat_(sub(Len(term.subs)))}} : TRUE
          [] t = "OrC" -> Satisfaction(Witness_Impossible, FALSE)
          [] t = "OrI" ->
               CHOOSE ret \in
                   {min_fn(mall,
                           Satisfaction(Witness_combine(lnsat.stack, Witness_push_1),
                                        lnsat.has_sig),
                           Satisfaction(Witness_combine(rnsat.stack, Witness_push_0),
                                        rnsat.has_sig)) :
                        lnsat \in {nsat_(sub(1))}, rnsat \in {nsat_(sub(2))}} : TRUE
          [] t = "Thresh" ->
               CHOOSE ret \in
                   {Satisfaction(fold_dissats(nsats, Len(nsats)), FALSE) :
                        nsats \in {dissats_of(term.subs, stfr, root_has_sig_, mall)}} : TRUE
          [] t = "Multi" ->
               Satisfaction(Witness_Stack([i \in 1..(term.n + 1) |-> <<>>]), FALSE)
\* Satisfaction::dissatisfy_helper
dissatisfy_helper(term, stfr, root_has_sig_, mall) ==
    LET t == term.t
        sub(i) == term.subs[i]
        sat_(x) == satisfy_helper(x, stfr, root_has_sig_, mall)
        nsat_(x) == dissatisfy_helper(x, stfr, root_has_sig_, mall)
    IN  CASE t = "PkK" -> Satisfaction(Witness_push_0, FALSE)
          [] t = "PkH" ->
               Satisfaction(Witness_combine(Witness_push_0,
                                            Witness_pkh_public_key(stfr, term.n)),
                            FALSE)
          [] t = "False" -> Satisfaction(Witness_empty, FALSE)
          [] t \in {"True", "Older", "After"} -> Satisfaction(Witness_Impossible, FALSE)
          [] t \in Hashlocks -> Satisfaction(Witness_hash_dissatisfaction, FALSE)
          [] t \in {"Alt", "Swap", "Check", "ZeroNotEqual"} -> nsat_(sub(1))
          [] t \in {"DupIf", "NonZero"} -> Satisfaction(Witness_push_0, FALSE)
          [] t = "Verify" -> Satisfaction(Witness_Impossible, FALSE)
          [] t = "AndV" ->
               CHOOSE ret \in
                   {Satisfaction(Witness_combine(odissat.stack, vsat.stack),
                                 vsat.has_sig \/ odissat.has_sig) :
                        vsat \in {sat_(sub(1))}, odissat \in {nsat_(sub(2))}} : TRUE
          [] t \in {"AndB", "OrB", "OrD", "AndOr"} ->
               CHOOSE ret \in
                   {Satisfaction(Witness_combine(rnsat.stack, lnsat.stack),
                                 rnsat.has_sig \/ lnsat.has_sig) :
                        lnsat \in {nsat_(sub(1))},
                        rnsat \in {nsat_(sub(Len(term.subs)))}} : TRUE
          [] t = "OrC" -> Satisfaction(Witness_Impossible, FALSE)
          [] t = "OrI" ->
               CHOOSE ret \in
                   {min_fn(mall,
                           Satisfaction(Witness_combine(lnsat.stack, Witness_push_1),
                                        lnsat.has_sig),
                           Satisfaction(Witness_combine(rnsat.stack, Witness_push_0),
                                        rnsat.has_sig)) :
                        lnsat \in {nsat_(sub(1))}, rnsat \in {nsat_(sub(2))}} : TRUE
          [] t = "Thresh" ->
               CHOOSE ret \in
                   {Satisfaction(fold_dissats(nsats, Len(nsats)), FALSE) :
                        nsats \in {dissats_of(term.subs, stfr, root_has_sig_, mall)}} : TRUE
          [] t = "Multi" ->
               Satisfaction(Witness_Stack([i \in 1..(term.n + 1) |-> <<>>]), FALSE)

\* Satisfaction::satisfy
Satisfaction_satisfy(term, stfr, root_has_sig_) == satisfy_helper(term, stfr, root_has_sig_, FALSE)

\* Satisfaction::satisfy_mall
Satisfaction_satisfy_mall(term, stfr, root_has_sig_) == satisfy_helper(term, stfr, root_has_sig_, TRUE)

----------------------------------------------------------------------------
(* The fragments and witness stacks the model runs *)

\* jtv:sha256(h)
jtv_sha256(h) == NonZero(AndV(Verify(Sha256(h)), True))

ms_pk == Check(PkK(0))
ms_pkh == Check(PkH(to_pubkeyhash(1)))
ms_after == After(2)
ms_older == Older(2)
ms_sha256 == Sha256(7)
ms_and_v == AndV(Verify(Check(PkK(0))), Check(PkH(to_pubkeyhash(1))))
ms_and_b == AndB(Check(PkK(0)), Swap(jtv_sha256(7)))
ms_andor == AndOr(Check(PkK(0)), jtv_sha256(7), Check(PkH(to_pubkeyhash(1))))
ms_or_b == OrB(Check(PkK(0)), Swap(jtv_sha256(7)))
ms_or_d == OrD(Check(PkK(0)), jtv_sha256(7))
ms_or_c == AndV(OrC(jtv_sha256(7), Verify(Check(PkK(0)))), True)
ms_or_i == OrI(jtv_sha256(7), Check(PkK(0)))
ms_thresh == Thresh(2, <<Check(PkK(2)), Swap(Check(PkK(1))), Swap(Check(PkK(0)))>>)
ms_thresh5 ==
    Thresh(3, <<Check(PkK(4)), Swap(Check(PkK(3))), Swap(Check(PkK(2))),
                Swap(Check(PkK(1))), Swap(Check(PkK(0)))>>)
ms_multi == Multi(2, <<2, 1, 0>>)
ms_multi1 == Multi(1, <<1, 0>>)
ms_multi5 == Multi(3, <<4, 3, 2, 1, 0>>)
ms_dupif == AndB(Check(PkK(0)), Alt(DupIf(Verify(After(2)))))
ms_zne == ZeroNotEqual(Check(PkK(0)))
ms_and_v_multi == AndV(Verify(Multi(1, <<1, 0>>)), Check(PkK(2)))
ms_or_d_multi == OrD(Multi(1, <<1, 0>>), Check(PkK(2)))

\* fragments whose satisfaction is a choice between two preimages
ms_or_i_hashes == OrI(jtv_sha256(7), jtv_sha256(8))
ms_thresh_hashes == Thresh(1, <<Sha256(7), Swap(Sha256(8))>>)
ms_or_b_hashes == OrB(Sha256(7), Alt(Sha256(8)))
ms_or_c_hashes == AndV(OrC(Sha256(7), Verify(Sha256(8))), True)
ms_or_d_hashes == OrD(Sha256(7), Sha256(8))
ms_andor_hashes == AndOr(Sha256(7), True, Sha256(8))

HashChoices ==
    {ms_or_i_hashes, ms_thresh_hashes, ms_or_b_hashes, ms_or_c_hashes, ms_or_d_hashes,
     ms_andor_hashes}

\* or_i(0, c:pk_k(pk0)): a branch that cannot be satisfied
ms_or_i_false == OrI(False, Check(PkK(0)))

Fragments ==
    {ms_pk, ms_pkh, ms_after, ms_older, ms_sha256, ms_and_v, ms_and_b, ms_andor,
     ms_or_b, ms_or_d, ms_or_c, ms_or_i, ms_thresh, ms_multi, ms_multi1, ms_multi5,
     ms_dupif, ms_zne, ms_and_v_multi, ms_or_d_multi, ms_thresh5}

\* and_v(v:after(2), older(4)): two timelocks, the second not met at the
\* times the model spends at
ms_after_older == AndV(Verify(After(2)), Older(4))

\* or_i(c:pk_k(pk0), and_v(v:sha256(H7), and_v(v:sha256(H8), sha256(H9)))):
\* a signature on one side, three preimages, more bytes than it, on the other
ms_or_i_hash3 ==
    OrI(Check(PkK(0)), AndV(Verify(Sha256(7)), AndV(Verify(Sha256(8)), Sha256(9))))

SatFragments == Fragments \cup HashChoices \cup {ms_or_i_false, ms_after_older, ms_or_i_hash3}

RECURSIVE KeysOf(_)
KeysOf(ms) ==
    CASE ms.t = "PkK" -> {ms.n}
      [] ms.t = "Multi" -> Range(ms.keys)
      [] OTHER -> UNION {KeysOf(ms.subs[i]) : i \in 1..Len(ms.subs)}

RECURSIVE PkhOf(_)
PkhOf(ms) ==
    IF ms.t = "PkH" THEN {ms.n}
    ELSE UNION {PkhOf(ms.subs[i]) : i \in 1..Len(ms.subs)}

RECURSIVE HashesOf(_)
HashesOf(ms) ==
    IF ms.t \in {"Sha256", "Hash256", "Hash160", "Ripemd160"} THEN {ms.n}
    ELSE UNION {HashesOf(ms.subs[i]) : i \in 1..Len(ms.subs)}

RECURSIVE HasTimelock(_)
HasTimelock(ms) ==
    \/ ms.t \in {"After", "Older"}
    \/ \E i \in 1..Len(ms.subs) : HasTimelock(ms.subs[i])

\* the keys whose hash is in the set
PkhKeys(hs) == {pk \in 0..4 : to_pubkeyhash(pk) \in hs}

Sig(pk) == Push(RawSig(pk, 0, SIGHASH_ALL))

\* the stack elements a spend of ms is drawn from; the signature of pk0 also
\* with a sighash byte that is not standard
Alphabet(ms) ==
    {Satisfied, Dissatisfied}
        \cup {Sig(pk) : pk \in KeysOf(ms) \cup PkhKeys(PkhOf(ms))}
        \cup {Push(to_bytes(pk)) : pk \in PkhKeys(PkhOf(ms))}
        \cup {Push(Preimage(h)) : h \in HashesOf(ms)}
        \cup {Push(RawSig(pk, 0, 4)) : pk \in KeysOf(ms) \cap {0}}

\* a key-only spend of pk: also a signature with a non-standard sighash byte
KeyAlphabet(pk) ==
    {Satisfied, Dissatisfied, Sig(pk), Sig(pk + 1), Push(RawSig(pk, 0, 4))}

Times(ms) == IF HasTimelock(ms) THEN {1, 3} ELSE {3}

\* the witness stacks a spend of ms is tried with: every stack of up to
\* MaxStackLen elements and, for a Thresh, every stack that hands each child
\* an empty element or a signature
Stacks(ms) ==
    SeqsUpTo(Alphabet(ms), MaxStackLen)
        \cup (IF ms.t = "Thresh"
              THEN [1..Len(ms.subs) -> {Dissatisfied} \cup {Sig(pk) : pk \in KeysOf(ms)}]
              ELSE {})

RECURSIVE HashlocksOf(_)
HashlocksOf(ms) ==
    IF ms.t \in Hashlocks THEN {<<ms.t, ms.n>>}
    ELSE UNION {HashlocksOf(ms.subs[i]) : i \in 1..Len(ms.subs)}

RECURSIVE TimelocksOf(_, _)
TimelocksOf(ms, t) ==
    IF ms.t = t THEN {ms.n}
    ELSE UNION {TimelocksOf(ms.subs[i], t) : i \in 1..Len(ms.subs)}

\* The lookup table that has a signature by each key of have, one byte
\* longer for the keys of long, the key and signature for the hash of each
\* key of pkhs that is in have, the key alone for the others of pkhs, the
\* preimages of pres, and the timelocks met
Table(have, long, pkhs, pres, older, after) ==
    LET sig_of(pk) ==
            BitcoinSig(serialize_der(pk, IF pk \in long THEN 1 ELSE 0), SIGHASH_ALL)
        key_of(pkh) == CHOOSE pk \in Keys : to_pubkeyhash(pk) = pkh
    IN  [sig |-> [pk \in Keys |-> IF pk \in have THEN Some(sig_of(pk)) ELSE OptNone],
         pkh_pk |-> [pkh \in {to_pubkeyhash(pk) : pk \in Keys} |->
                        IF key_of(pkh) \in pkhs THEN Some(key_of(pkh)) ELSE OptNone],
         pkh_sig |-> [pkh \in {to_pubkeyhash(pk) : pk \in Keys} |->
                         IF key_of(pkh) \in pkhs \cap have
                         THEN Some([pk |-> key_of(pkh), sig |-> sig_of(key_of(pkh))])
                         ELSE OptNone],
         preimages |-> pres,
         older |-> older,
         after |-> after]

\* the unit satisfier `()`: nothing is known
NoLookup == Table({}, {}, {}, {}, {}, {})

\* a miniscript that has not been spent yet
Miniscript(ms) == [ctx |-> "Miniscript", ms |-> ms, pk |-> 0]

Script(ms) == [ctx |-> "Script", ms |-> ms, pk |-> 0]
PublicKey(pk) == [ctx |-> "PublicKey", ms |-> False, pk |-> pk]

----------------------------------------------------------------------------
(* The interpreter as a state machine *)

\* lex has not been called and there is no Psbt
NoAdapters == script = <<>> /\ tokens = OptNone /\ psbt = OptNone /\ answer = OptNone

\* dissatisfy_helper and minimum have not been called
NoCalls ==
    /\ dissatisfaction = OptNone /\ candidates = <<>> /\ chosen = OptNone
    /\ NoAdapters

\* Interpreter::from_txdata has recovered the context and the stack
Init ==
    /\ \/ \E ms \in Fragments :
             /\ inner = Script(ms)
             /\ stack \in Stacks(ms)
             /\ age \in Times(ms)
             /\ height = age
       \/ /\ inner = PublicKey(0)
          /\ stack \in SeqsUpTo(KeyAlphabet(0), MaxStackLen)
          /\ age = 3
          /\ height = 3
    /\ stack0 = stack
    /\ iterating = FALSE
    /\ public_key = <<>>
    /\ state = <<>>
    /\ has_errored = FALSE
    /\ out = <<>>
    /\ popped = <<>>
    /\ lookup = NoLookup
    /\ satisfaction = OptNone
    /\ satisfaction_mall = OptNone
    /\ root_has_sig = FALSE
    /\ NoCalls

\* Interpreter::iter
iter ==
    /\ ~iterating
    /\ inner.ctx \in {"Script", "PublicKey"}
    /\ iterating' = TRUE
    /\ public_key' = IF inner.ctx = "PublicKey" THEN <<inner.pk>> ELSE <<>>
    /\ state' = IF inner.ctx = "Script"
                THEN <<NodeEvaluationState(inner.ms, 0, 0)>>
                ELSE <<>>
    /\ has_errored' = FALSE
    /\ UNCHANGED <<inner, stack, age, height, out, stack0, lookup, satisfaction, satisfaction_mall,
                   root_has_sig, calls, popped>>

\* Iterator for Iter: next
next ==
    /\ iterating
    /\ Len(out) < MaxCalls
    /\ \E res \in {Iter_next(has_errored, state, stack, public_key, age, height)} :
           /\ state' = res.state
           /\ stack' = res.stack
           /\ public_key' = res.public_key
           /\ has_errored' = res.has_errored
           /\ out' = Append(out, res.ret)
           /\ popped' = popped \o res.popped
    /\ UNCHANGED <<inner, age, height, iterating, stack0, lookup, satisfaction, satisfaction_mall,
                   root_has_sig, calls>>

Next == iter \/ next

Spec == Init /\ [][Next]_vars

----------------------------------------------------------------------------
(* The satisfier and the interpreter together: a miniscript is satisfied *)
(* from a lookup table and the witness is spent                           *)

\* a Miniscript, a lookup table for it and the transaction's timelocks
InitSat ==
    /\ \E ms \in SatFragments :
           /\ inner = Miniscript(ms)
           /\ age \in Times(ms)
           /\ \E have \in SUBSET (KeysOf(ms) \cup PkhKeys(PkhOf(ms))) :
              \E long \in {{}} \cup {{pk} : pk \in have} :
              \E pkhs \in SUBSET PkhKeys(PkhOf(ms)) :
              \E pres \in SUBSET HashlocksOf(ms) :
                  lookup = Table(have, long, pkhs, pres,
                                 {n \in TimelocksOf(ms, "Older") : n <= age},
                                 {n \in TimelocksOf(ms, "After") : n <= age})
    /\ height = age
    /\ root_has_sig \in BOOLEAN
    /\ satisfaction = OptNone
    /\ satisfaction_mall = OptNone
    /\ stack = <<>>
    /\ stack0 = <<>>
    /\ iterating = FALSE
    /\ public_key = <<>>
    /\ state = <<>>
    /\ has_errored = FALSE
    /\ out = <<>>
    /\ popped = <<>>
    /\ NoCalls

\* Satisfaction::satisfy on the miniscript with the table
satisfy ==
    /\ inner.ctx = "Miniscript"
    /\ satisfaction = OptNone
    /\ \E res \in {Satisfaction_satisfy(inner.ms, lookup, root_has_sig)} :
           satisfaction' = Some(res)
    /\ UNCHANGED <<inner, stack, age, height, iterating, public_key, state,
                   has_errored, out, stack0, lookup, satisfaction_mall, root_has_sig, calls, popped>>

\* Satisfaction::satisfy_mall on the miniscript with the table
satisfy_mall ==
    /\ inner.ctx = "Miniscript"
    /\ satisfaction_mall = OptNone
    /\ \E res \in {Satisfaction_satisfy_mall(inner.ms, lookup, root_has_sig)} :
           satisfaction_mall' = Some(res)
    /\ UNCHANGED <<inner, stack, age, height, iterating, public_key, state,
                   has_errored, out, stack0, lookup, satisfaction, root_has_sig, calls,
                   popped>>

\* Interpreter::from_txdata on the witness the satisfier produced
from_txdata ==
    /\ inner.ctx = "Miniscript"
    /\ satisfaction # OptNone
    /\ satisfaction[1].stack.w = "Stack"
    /\ inner' = Script(inner.ms)
    /\ stack' = Stack_from(satisfaction[1].stack.v)
    /\ stack0' = stack'
    /\ UNCHANGED <<age, height, iterating, public_key, state, has_errored, out,
                   lookup, satisfaction, satisfaction_mall, root_has_sig, calls, popped>>

\* the term and the terms below it
RECURSIVE Subterms(_)
Subterms(ms) == {ms} \cup UNION {Subterms(ms.subs[i]) : i \in 1..Len(ms.subs)}

\* Satisfaction::dissatisfy_helper on a term of the miniscript, as the
\* recursion of the non-malleable satisfier calls it
dissatisfy ==
    /\ inner.ctx = "Miniscript"
    /\ dissatisfaction = OptNone
    /\ \E term \in Subterms(inner.ms) :
       \E res \in {dissatisfy_helper(term, lookup, root_has_sig, FALSE)} :
           dissatisfaction' = Some([term |-> term, sat |-> res])
    /\ UNCHANGED <<inner, stack, age, height, iterating, public_key, state,
                   has_errored, out, stack0, lookup, satisfaction, satisfaction_mall, root_has_sig,
                   candidates, chosen, adapters, popped>>

NextSat == satisfy \/ satisfy_mall \/ dissatisfy \/ from_txdata \/ iter \/ next

SpecSat == InitSat /\ [][NextSat]_vars

----------------------------------------------------------------------------
(* Satisfaction::minimum on two candidates *)

\* the witnesses of the candidates: the empty stack, a signature, a
\* signature one byte longer, Unavailable and Impossible
CandidateStacks ==
    {Witness_empty, Witness_Stack(<<RawSig(0, 0, SIGHASH_ALL)>>),
     Witness_Stack(<<RawSig(1, 1, SIGHASH_ALL)>>), Witness_Unavailable, Witness_Impossible}

Candidates == {Satisfaction(w, s) : w \in CandidateStacks, s \in BOOLEAN}

\* two candidates, and nothing else going on
InitMin ==
    /\ candidates \in Candidates \X Candidates
    /\ chosen = OptNone
    /\ dissatisfaction = OptNone
    /\ inner = Miniscript(True)
    /\ lookup = NoLookup
    /\ root_has_sig = FALSE
    /\ satisfaction = OptNone
    /\ satisfaction_mall = OptNone
    /\ age = 3
    /\ height = 3
    /\ stack = <<>>
    /\ stack0 = <<>>
    /\ iterating = FALSE
    /\ public_key = <<>>
    /\ state = <<>>
    /\ has_errored = FALSE
    /\ out = <<>>
    /\ popped = <<>>
    /\ NoAdapters

\* Satisfaction::minimum on the two candidates
choose_minimum ==
    /\ candidates # <<>>
    /\ chosen = OptNone
    /\ \E res \in {minimum(candidates[1], candidates[2])} : chosen' = Some(res)
    /\ UNCHANGED <<inner, stack, age, height, iterating, public_key, state,
                   has_errored, out, stack0, lookup, satisfaction, satisfaction_mall, root_has_sig,
                   dissatisfaction, candidates, adapters, popped>>

NextMin == choose_minimum

SpecMin == InitMin /\ [][NextMin]_vars

----------------------------------------------------------------------------
(* The lexer: miniscript::lex::lex *)

\* script::Instruction as instructions_minimal yields it: an opcode, a push
\* of bytes, or the error of a push that is not minimal
Op(name) == [ins |-> "Op", op |-> name, bytes |-> <<>>]
PushBytes(bytes) == [ins |-> "PushBytes", op |-> "", bytes |-> bytes]
InstructionError == [ins |-> "Err", op |-> "", bytes |-> <<>>]

\* lex::Token; n is the number of a Num
Token(name) == [tok |-> name, n |-> 0]
Num(n) == [tok |-> "Num", n |-> n]

\* Result<Vec<Token>, Error>: an error carries no token sequence
LexOk(ret) == [r |-> "Ok", v |-> ret]
LexErr(kind, what) == [r |-> "Err", e |-> kind, what |-> what]

\* the opcodes lex turns into one token
OneToken ==
    [OP_BOOLAND |-> "BoolAnd", OP_BOOLOR |-> "BoolOr", OP_EQUAL |-> "Equal",
     OP_CHECKSIG |-> "CheckSig", OP_CHECKMULTISIG |-> "CheckMultiSig",
     OP_CSV |-> "CheckSequenceVerify", OP_CLTV |-> "CheckLockTimeVerify",
     OP_FROMALTSTACK |-> "FromAltStack", OP_TOALTSTACK |-> "ToAltStack",
     OP_DROP |-> "Drop", OP_DUP |-> "Dup", OP_ADD |-> "Add", OP_IF |-> "If",
     OP_IFDUP |-> "IfDup", OP_NOTIF |-> "NotIf", OP_ELSE |-> "Else",
     OP_ENDIF |-> "EndIf", OP_0NOTEQUAL |-> "ZeroNotEqual", OP_SIZE |-> "Size",
     OP_SWAP |-> "Swap", OP_RIPEMD160 |-> "Ripemd160", OP_HASH160 |-> "Hash160",
     OP_SHA256 |-> "Sha256", OP_HASH256 |-> "Hash256"]

\* the opcodes lex turns into a token and Verify
WithVerify ==
    [OP_EQUALVERIFY |-> "Equal", OP_CHECKSIGVERIFY |-> "CheckSig",
     OP_CHECKMULTISIGVERIFY |-> "CheckMultiSig"]

\* script::read_scriptint on one byte: the sign is the top bit
read_scriptint(bytes) == IF bytes[1] < 128 THEN bytes[1] ELSE 0 - (bytes[1] - 128)

\* Builder::push_int(v).into_script()[1..] for 0 <= v < 128: an opcode of
\* its own up to 16, and a push of one byte above
push_int_tail(v) == IF v <= 16 THEN <<>> ELSE <<v>>

\* lex_OP_VERIFY without the test of the last token
lex_OP_VERIFY_unchecked(ret) == LexOk(Append(ret, Token("Verify")))

\* lex: the arm of OP_VERIFY
lex_OP_VERIFY(ret) ==
    IF ret # <<>> /\ ret[Len(ret)].tok \in {"Equal", "CheckSig", "CheckMultiSig"}
    THEN LexErr("NonMinimalVerify", <<ret[Len(ret)]>>)
    ELSE LexOk(Append(ret, Token("Verify")))

\* lex: the match on one instruction, ret being the tokens so far
lex_instruction(ins, ret) ==
    CASE ins.ins = "Err" -> LexErr("Script", <<>>)
      [] ins.ins = "Op" /\ ins.op \in DOMAIN WithVerify ->
           LexOk(ret \o <<Token(WithVerify[ins.op]), Token("Verify")>>)
      [] ins.ins = "Op" /\ ins.op = "OP_VERIFY" -> lex_OP_VERIFY(ret)
      [] ins.ins = "Op" /\ ins.op \in DOMAIN OneToken ->
           LexOk(Append(ret, Token(OneToken[ins.op])))
      [] ins.ins = "PushBytes" ->
           IF Len(ins.bytes) # 1 THEN LexErr("Script", <<>>)
           ELSE IF read_scriptint(ins.bytes) < 0 THEN LexErr("InvalidPush", ins.bytes)
           ELSE IF push_int_tail(read_scriptint(ins.bytes)) # ins.bytes
           THEN LexErr("InvalidPush", ins.bytes)
           ELSE LexOk(Append(ret, Num(read_scriptint(ins.bytes))))
      [] OTHER -> LexErr("InvalidOpcode", <<ins.op>>)

\* lex: the loop over the instructions from the i-th on; the first error
\* returns
RECURSIVE lex_from(_, _, _)
lex_from(script_, i, ret) ==
    IF i > Len(script_) THEN LexOk(ret)
    ELSE LET res == lex_instruction(script_[i], ret)
         IN  IF res.r = "Err" THEN res ELSE lex_from(script_, i + 1, res.v)

\* lex
lex_script(script_) == lex_from(script_, 1, <<>>)

\* the longest script the model lexes
MaxScriptLen == 4

\* the instructions the scripts are made of: the three checks alone and with
\* VERIFY, VERIFY, an opcode with one token, an opcode lex does not know, a
\* minimal push of a number, a push of a negative number, and a push that
\* is not minimal
Instructions ==
    {Op(o) : o \in {"OP_EQUAL", "OP_EQUALVERIFY", "OP_CHECKSIG", "OP_CHECKSIGVERIFY",
                    "OP_CHECKMULTISIG", "OP_CHECKMULTISIGVERIFY", "OP_VERIFY",
                    "OP_DUP", "OP_NOP"}}
        \cup {PushBytes(<<17>>), PushBytes(<<129>>), InstructionError}

\* the interpreter and the satisfier are not in use
NoInterpreter ==
    /\ inner = Miniscript(True)
    /\ lookup = NoLookup
    /\ root_has_sig = FALSE
    /\ satisfaction = OptNone
    /\ satisfaction_mall = OptNone
    /\ age = 3
    /\ height = 3
    /\ stack = <<>>
    /\ stack0 = <<>>
    /\ iterating = FALSE
    /\ public_key = <<>>
    /\ state = <<>>
    /\ has_errored = FALSE
    /\ out = <<>>
    /\ popped = <<>>
    /\ dissatisfaction = OptNone
    /\ candidates = <<>>
    /\ chosen = OptNone

\* a script that has not been lexed
InitLex ==
    /\ script \in SeqsUpTo(Instructions, MaxScriptLen)
    /\ tokens = OptNone
    /\ psbt = OptNone
    /\ answer = OptNone
    /\ NoInterpreter

\* lex on the script
lex ==
    /\ tokens = OptNone
    /\ \E res \in {lex_script(script)} : tokens' = Some(res)
    /\ UNCHANGED <<inner, stack, age, height, iterating, public_key, state,
                   has_errored, out, stack0, lookup, satisfaction, satisfaction_mall, root_has_sig,
                   dissatisfaction, candidates, chosen, script, psbt, answer, popped>>

NextLex == lex

SpecLex == InitLex /\ [][NextLex]_vars

----------------------------------------------------------------------------
(* u32 locktimes and the Satisfier of Older *)

\* a u32 as its two halves of 16 bits, hi the upper one
U32(hi, lo) == [hi |-> hi, lo |-> lo]

\* a & b and a | b on n bits
RECURSIVE and_bits(_, _, _)
and_bits(a, b, n) ==
    IF n = 0 THEN 0
    ELSE (a % 2) * (b % 2) + 2 * and_bits(a \div 2, b \div 2, n - 1)

RECURSIVE or_bits(_, _, _)
or_bits(a, b, n) ==
    IF n = 0 THEN 0
    ELSE (IF a % 2 = 1 \/ b % 2 = 1 THEN 1 ELSE 0)
             + 2 * or_bits(a \div 2, b \div 2, n - 1)

\* the operators & and | of u32, and its order
BitAnd(x, y) == U32(and_bits(x.hi, y.hi, 16), and_bits(x.lo, y.lo, 16))
BitOr(x, y) == U32(or_bits(x.hi, y.hi, 16), or_bits(x.lo, y.lo, 16))
u32_lt(x, y) == x.hi < y.hi \/ (x.hi = y.hi /\ x.lo < y.lo)
u32_le(x, y) == x = y \/ u32_lt(x, y)

\* miniscript::limits: 1 << 31 and 1 << 22
SEQUENCE_LOCKTIME_DISABLE_FLAG == U32(32768, 0)
SEQUENCE_LOCKTIME_TYPE_FLAG == U32(64, 0)
SEQUENCE_LOCKTIME_MASK == U32(0, 65535)

\* impl Satisfier for Older: check_older, self.0 being seq
Older_check_older(seq, n) ==
    IF BitAnd(seq, SEQUENCE_LOCKTIME_DISABLE_FLAG) # U32(0, 0) THEN TRUE
    ELSE LET mask == BitOr(SEQUENCE_LOCKTIME_MASK, SEQUENCE_LOCKTIME_TYPE_FLAG)
             masked_n == BitAnd(n, mask)
             masked_seq == BitAnd(seq, mask)
         IN  IF /\ u32_lt(masked_n, SEQUENCE_LOCKTIME_TYPE_FLAG)
                /\ ~u32_lt(masked_seq, SEQUENCE_LOCKTIME_TYPE_FLAG)
             THEN FALSE
             ELSE u32_le(masked_n, masked_seq)

\* the locktimes and sequences the model tries: each of the disable flag,
\* the type flag and a bit no mask keeps, set or clear, over four values
Locktimes == {U32(hi, lo) : hi \in {0, 1, 64, 32768, 32832}, lo \in {0, 1, 2, 65535}}

----------------------------------------------------------------------------
(* The PSBT adapter: PsbtInputSatisfier and extract *)

\* Result<BitcoinSig, interpreter::Error>, or the panic of an unwrap on None
SigOk(sig) == [r |-> "Ok", sig |-> sig, e |-> ""]
SigErr(kind) == [r |-> "Err", sig |-> BitcoinSig(<<>>, 0), e |-> kind]
SigPanic == [r |-> "Panic", sig |-> BitcoinSig(<<>>, 0), e |-> "unwrap"]

\* bitcoinsig_from_rawsig
bitcoinsig_from_rawsig(rawsig) ==
    IF rawsig = <<>> THEN SigPanic
    ELSE LET flag == Last(rawsig)
             sig == Front(rawsig)
         IN  IF flag \notin StandardSigHash THEN SigErr("NonStandardSigHash")
             ELSE IF ~from_der_ok(sig) THEN SigErr("Secp")
             ELSE SigOk(BitcoinSig(sig, flag))

\* what a call returns: a value, or no value when it panicked
Returned(v) == [panicked |-> FALSE, v |-> v]
Panics == [panicked |-> TRUE, v |-> <<>>]

\* Result::ok on what bitcoinsig_from_rawsig returned
Result_ok(res) ==
    CASE res.r = "Panic" -> Panics
      [] res.r = "Ok" -> Returned(Some(res.sig))
      [] res.r = "Err" -> Returned(OptNone)

\* a transaction input and a PSBT input map; partial_sigs is the set of its
\* entries <<pk, rawsig>>
TxIn(sequence, script_sig, witness) ==
    [sequence |-> sequence, script_sig |-> script_sig, witness |-> witness]
PsbtInput(partial_sigs, final_script_sig, final_script_witness) ==
    [partial_sigs |-> partial_sigs,
     final_script_sig |-> final_script_sig,
     final_script_witness |-> final_script_witness]

\* PartiallySignedTransaction: global.unsigned_tx (version, input) and inputs
Psbt(version, input, inputs) ==
    [unsigned_tx |-> [version |-> version, input |-> input], inputs |-> inputs]

\* PsbtInputSatisfier::lookup_sig; index counts from 0
PsbtInputSatisfier_lookup_sig(psbt_, index, pk) ==
    LET found == {e \in psbt_.inputs[index + 1].partial_sigs : e[1] = pk}
    IN  IF found # {}
        THEN Result_ok(bitcoinsig_from_rawsig((CHOOSE e \in found : TRUE)[2]))
        ELSE Returned(OptNone)

\* PsbtInputSatisfier::lookup_pkh_sig: the first entry whose key has the hash
PsbtInputSatisfier_lookup_pkh_sig(psbt_, index, pkh) ==
    LET found == {e \in psbt_.inputs[index + 1].partial_sigs : to_pubkeyhash(e[1]) = pkh}
    IN  IF found # {}
        THEN LET first == CHOOSE e \in found : \A f \in found : e[1] <= f[1]
                 res == Result_ok(bitcoinsig_from_rawsig(first[2]))
             IN  IF res.panicked \/ res.v = OptNone THEN res
                 ELSE Returned(Some([pk |-> first[1], sig |-> res.v[1]]))
        ELSE Returned(OptNone)

\* PsbtInputSatisfier::check_older without the test of the transaction version
PsbtInputSatisfier_check_older_any_version(psbt_, index, n) ==
    LET seq == psbt_.unsigned_tx.input[index + 1].sequence
    IN  IF BitAnd(n, SEQUENCE_LOCKTIME_DISABLE_FLAG) # U32(0, 0) THEN TRUE
        ELSE IF BitAnd(seq, SEQUENCE_LOCKTIME_DISABLE_FLAG) # U32(0, 0) THEN FALSE
        ELSE Older_check_older(seq, n)
\* PsbtInputSatisfier::check_older
PsbtInputSatisfier_check_older(psbt_, index, n) ==
    LET seq == psbt_.unsigned_tx.input[index + 1].sequence
    IN  IF BitAnd(n, SEQUENCE_LOCKTIME_DISABLE_FLAG) # U32(0, 0) THEN TRUE
        ELSE IF \/ psbt_.unsigned_tx.version < 2
                \/ BitAnd(seq, SEQUENCE_LOCKTIME_DISABLE_FLAG) # U32(0, 0)
        THEN FALSE
        ELSE Older_check_older(seq, n)

\* the raw signatures a partial_sigs map may hold for pk0: none, the empty
\* byte string, a signature by pk0, one with a sighash byte that is not
\* standard, and bytes that are not DER
RawSigs0 ==
    {{}, {<<0, <<>>>>}, {<<0, RawSig(0, 0, SIGHASH_ALL)>>}, {<<0, RawSig(0, 0, 4)>>},
     {<<0, <<7, 7, SIGHASH_ALL>>>>}}

\* the partial_sigs maps: an entry for pk0 or none, with or without a
\* signature by pk1
PartialSigs == {a \cup b : a \in RawSigs0, b \in {{}, {<<1, RawSig(1, 0, SIGHASH_ALL)>>}}}

\* a PSBT of one input for the satisfier: any version, sequence and map
SatisfierPsbts ==
    {Psbt(version, <<TxIn(seq, <<>>, <<>>)>>, <<PsbtInput(sigs, OptNone, OptNone)>>) :
         version \in {1, 2}, seq \in Locktimes, sigs \in PartialSigs}

\* a PsbtInputSatisfier over the one input of a PSBT
InitPsbt ==
    /\ psbt \in {Some(p) : p \in SatisfierPsbts}
    /\ answer = OptNone
    /\ script = <<>>
    /\ tokens = OptNone
    /\ NoInterpreter

\* a call on the PSBT with its argument and what it returned
Call(name, arg, ret) == [call |-> name, arg |-> arg, ret |-> ret]

\* what no psbt action changes
NotThePsbt ==
    <<inner, stack, age, height, iterating, public_key, state, has_errored, out,
      stack0, lookup, satisfaction, satisfaction_mall, root_has_sig, dissatisfaction, candidates,
      chosen, script, tokens, psbt, popped>>

\* PsbtInputSatisfier::lookup_sig on input 0
psbt_lookup_sig ==
    /\ psbt # OptNone /\ answer = OptNone
    /\ Len(psbt[1].inputs) = 1
    /\ \E pk \in {0, 1} :
       \E res \in {PsbtInputSatisfier_lookup_sig(psbt[1], 0, pk)} :
           answer' = Some(Call("lookup_sig", pk, res))
    /\ UNCHANGED NotThePsbt

\* PsbtInputSatisfier::lookup_pkh_sig on input 0
psbt_lookup_pkh_sig ==
    /\ psbt # OptNone /\ answer = OptNone
    /\ Len(psbt[1].inputs) = 1
    /\ \E pk \in {0, 1} :
       \E res \in {PsbtInputSatisfier_lookup_pkh_sig(psbt[1], 0, to_pubkeyhash(pk))} :
           answer' = Some(Call("lookup_pkh_sig", to_pubkeyhash(pk), res))
    /\ UNCHANGED NotThePsbt

\* PsbtInputSatisfier::check_older on input 0
psbt_check_older ==
    /\ psbt # OptNone /\ answer = OptNone
    /\ Len(psbt[1].inputs) = 1
    /\ \E n \in Locktimes :
       \E res \in {PsbtInputSatisfier_check_older(psbt[1], 0, n)} :
           answer' = Some(Call("check_older", n, Returned(res)))
    /\ UNCHANGED NotThePsbt

\* Older(seq).check_older, seq being the sequence of input 0
older_check_older ==
    /\ psbt # OptNone /\ answer = OptNone
    /\ Len(psbt[1].inputs) = 1
    /\ \E n \in Locktimes :
       \E res \in {Older_check_older(psbt[1].unsigned_tx.input[1].sequence, n)} :
           answer' = Some(Call("Older", n, Returned(res)))
    /\ UNCHANGED NotThePsbt

NextPsbt == psbt_lookup_sig \/ psbt_lookup_pkh_sig \/ psbt_check_older \/ older_check_older

SpecPsbt == InitPsbt /\ [][NextPsbt]_vars

----------------------------------------------------------------------------
(* The extractor: psbt::extract *)

\* Result<dogecoin::Transaction, Error>
ExtractOk(tx) == [r |-> "Ok", tx |-> tx]
WrongInputCount(in_tx, in_map) ==
    [r |-> "Err", e |-> "WrongInputCount", in_tx |-> in_tx, in_map |-> in_map]
InputError(kind, n) == [r |-> "Err", e |-> kind, n |-> n]

\* sanity_check
sanity_check(psbt_) ==
    IF Len(psbt_.unsigned_tx.input) # Len(psbt_.inputs)
    THEN WrongInputCount(Len(psbt_.unsigned_tx.input), Len(psbt_.inputs))
    ELSE [r |-> "Ok"]

\* finalizer::interpreter_check: the interpreter is run on every input's
\* spend; rejected holds the inputs (counted from 0) whose spend it rejects
interpreter_check(psbt_, rejected) ==
    IF rejected = {} THEN [r |-> "Ok"]
    ELSE InputError("Interpreter", CHOOSE n \in rejected : \A m \in rejected : n <= m)

\* extract: the body of the loop that fails when either of final_script_sig
\* and final_script_witness is missing
extract_input_needs_both(input, txin, n) ==
    IF input.final_script_sig = OptNone \/ input.final_script_witness = OptNone
    THEN InputError("MissingWitness", n)
    ELSE [r |-> "Ok",
          txin |-> [txin EXCEPT !.witness = input.final_script_witness[1],
                                !.script_sig = input.final_script_sig[1]]]

\* extract: the body of the loop for input n, txin being ret.input[n]
extract_input(input, txin, n) ==
    IF input.final_script_sig = OptNone /\ input.final_script_witness = OptNone
    THEN InputError("MissingWitness", n)
    ELSE [r |-> "Ok",
          txin |-> [txin EXCEPT
                        !.witness = IF input.final_script_witness # OptNone
                                    THEN input.final_script_witness[1] ELSE @,
                        !.script_sig = IF input.final_script_sig # OptNone
                                       THEN input.final_script_sig[1] ELSE @]]

\* extract: the loop from input n on, then interpreter_check
RECURSIVE extract_from(_, _, _, _)
extract_from(psbt_, n, ret, rejected) ==
    IF n >= Len(psbt_.inputs)
    THEN LET checked == interpreter_check(psbt_, rejected)
         IN  IF checked.r = "Err" THEN checked ELSE ExtractOk(ret)
    ELSE LET res == extract_input(psbt_.inputs[n + 1], ret.input[n + 1], n)
         IN  IF res.r = "Err" THEN res
             ELSE extract_from(psbt_, n + 1,
                               [ret EXCEPT !.input[n + 1] = res.txin], rejected)

\* extract
psbt_extract(psbt_, rejected) ==
    IF sanity_check(psbt_).r = "Err" THEN sanity_check(psbt_)
    ELSE extract_from(psbt_, 0, psbt_.unsigned_tx, rejected)

\* the most inputs of a PSBT that is extracted
MaxInputs == 3

\* the input maps tried: each of final_script_sig and final_script_witness
\* present or not
FinalInputs ==
    {PsbtInput({}, fs, fw) : fs \in {OptNone, Some(<<71>>)},
                             fw \in {OptNone, Some(<<<<72>>, <<73>>>>)}}

\* the PSBTs handed to extract: up to MaxInputs inputs in the unsigned
\* transaction, without script_sig and witness, and up to MaxInputs input maps
ExtractPsbts ==
    {Psbt(2, [i \in 1..in_tx |-> TxIn(U32(65535, 65534), <<>>, <<>>)], inputs) :
         in_tx \in 0..MaxInputs, inputs \in SeqsUpTo(FinalInputs, MaxInputs)}

\* a PSBT that has not been extracted
InitExtract ==
    /\ psbt \in {Some(p) : p \in ExtractPsbts}
    /\ answer = OptNone
    /\ script = <<>>
    /\ tokens = OptNone
    /\ NoInterpreter

\* extract on the PSBT; the interpreter rejects the spends of rejected
extract ==
    /\ psbt # OptNone /\ answer = OptNone
    /\ \E rejected \in SUBSET (0..(Len(psbt[1].inputs) - 1)) :
       \E res \in {psbt_extract(psbt[1], rejected)} :
           answer' = Some(Call("extract", rejected, res))
    /\ UNCHANGED NotThePsbt

NextExtract == extract

SpecExtract == InitExtract /\ [][NextExtract]_vars

----------------------------------------------------------------------------
(* Vocabulary of the properties *)

\* the number of constraints among the first n values returned
OkCount(o, n) == Cardinality({i \in 1..n : i <= Len(o) /\ IsOk(o[i])})

\* the script is the fragment ms, spent with the witness stack w
Spends(ms, w) == inner = Script(ms) /\ stack0 = w

\* the values returned so far are the first values of the sequence expected
ReturnsInOrder(expected) ==
    \A n \in 1..Len(out) : n <= Len(expected) => out[n] = expected[n]

PublicKeyOf(pk) == Ok("PublicKey", pk, serialize_der(pk, 0))
PublicKeyHashOf(pk) == Ok("PublicKeyHash", pk, serialize_der(pk, 0))

\* where key pk stands in the key list
KeyPosition(keys, pk) == CHOOSE i \in 1..Len(keys) : keys[i] = pk

\* bytes is a signature by pk with a standard sighash byte
IsSigBy(pk, bytes) ==
    /\ Len(bytes) >= 3
    /\ Last(bytes) \in StandardSigHash
    /\ bytes[1] = 48
    /\ bytes[2] = pk

----------------------------------------------------------------------------
(* C1 *)

\* the table holds every signature, key, preimage and met timelock of ms
Full(stfr, ms) ==
    /\ \A pk \in KeysOf(ms) : lookup_sig(stfr, pk) # OptNone
    /\ \A pkh \in PkhOf(ms) :
           lookup_pkh_pk(stfr, pkh) # OptNone /\ lookup_pkh_sig(stfr, pkh) # OptNone
    /\ HashlocksOf(ms) \subseteq stfr.preimages
    /\ \A t \in TimelocksOf(ms, "Older") : check_older(stfr, t)
    /\ \A t \in TimelocksOf(ms, "After") : check_after(stfr, t)

\* the iteration returns constraints and then None: no error comes before
\* the first None, and the None comes
RunsToNone ==
    /\ \A i \in 1..Len(out) :
           (\A j \in 1..(i - 1) : IsOk(out[j])) => ~IsErr(out[i])
    /\ Len(out) >= MaxCalls => \E i \in 1..Len(out) : out[i] = None

----------------------------------------------------------------------------
(* C2 *)

\* C2: once next has returned an error, every later call returns None, so
\* an iteration returns at most one error
C2_ErrorIsFinal ==
    \A i \in 1..Len(out) :
        IsErr(out[i]) => \A j \in (i + 1)..Len(out) : out[j] = None

\* an error was returned with frames and stack elements left, and next was
\* called twice more
C2_Witness ==
    /\ Len(out) >= 3
    /\ IsErr(out[Len(out) - 2])
    /\ state # <<>>
    /\ stack # <<>>

----------------------------------------------------------------------------
(* C3 *)

\* C3: in a script context, a call of next that empties the frame stack
\* without returning returns None if the witness stack then holds exactly
\* one Satisfied, and Err(ScriptSatisfactionError) in every other case
C3_EndOfScript ==
    [][(/\ iterating
        /\ ~has_errored
        /\ inner.ctx = "Script"
        /\ out' # out
        /\ RunFrames(state, stack, age, height).ret = Cont)
       => out' = Append(out,
                        IF RunFrames(state, stack, age, height).stack = <<Satisfied>>
                        THEN None
                        ELSE Err("ScriptSatisfactionError"))]_vars

\* a script spend ended with None after yielding a constraint
C3_Witness ==
    /\ inner.ctx = "Script"
    /\ ~has_errored
    /\ Len(out) >= 2
    /\ Last(out) = None
    /\ IsOk(out[Len(out) - 1])
    /\ Len(stack0) >= 2

----------------------------------------------------------------------------
(* C4 *)

\* C4: a key-only spend never has a frame; when the top of the stack is a
\* valid signature by the key, the first next returns the PublicKey
\* constraint and puts Satisfied in its place, and the second returns None
\* exactly when nothing else is on the stack; when the top is no push, or
\* the stack is empty, the first next returns an error and no constraint is
\* ever returned
C4_KeyOnly ==
    inner.ctx = "PublicKey" =>
        /\ state = <<>>
        /\ Len(out) >= 1 =>
              IF stack0 # <<>> /\ Last(stack0).e = "Push"
                 /\ IsSigBy(inner.pk, Last(stack0).v)
              THEN /\ out[1] = Ok("PublicKey", inner.pk, Front(Last(stack0).v))
                   /\ Len(out) = 1 => stack = Append(Front(stack0), Satisfied)
                   /\ Len(out) >= 2 => (out[2] = None <=> Len(stack0) = 1)
                   /\ OkCount(out, Len(out)) = 1
              ELSE (stack0 = <<>> \/ Last(stack0).e # "Push") =>
                       /\ IsErr(out[1])
                       /\ OkCount(out, Len(out)) = 0

\* the key-only spend with one valid signature: a constraint, then None
C4_Witness ==
    /\ inner = PublicKey(0)
    /\ stack0 = <<Sig(0)>>
    /\ out = <<PublicKeyOf(0), None>>

----------------------------------------------------------------------------
(* C5 *)

\* the constraints a fragment can yield, as (kind, id)
RECURSIVE ConstraintsOf(_)
ConstraintsOf(ms) ==
    CASE ms.t = "PkK" -> {<<"PublicKey", ms.n>>}
      [] ms.t = "PkH" -> {<<"PublicKeyHash", pk>> : pk \in PkhKeys({ms.n})}
      [] ms.t = "Multi" -> {<<"PublicKey", ms.keys[i]>> : i \in 1..Len(ms.keys)}
      [] ms.t \in {"Sha256", "Hash256", "Hash160", "Ripemd160"} -> {<<ms.t, ms.n>>}
      [] ms.t = "After" -> {<<"AbsoluteTimeLock", ms.n>>}
      [] ms.t = "Older" -> {<<"RelativeTimeLock", ms.n>>}
      [] OTHER -> UNION {ConstraintsOf(ms.subs[i]) : i \in 1..Len(ms.subs)}

YieldedBy(ms, x) == IsOk(x) /\ <<x.kind, x.id>> \in ConstraintsOf(ms)

\* C5: under AndV(l, r) every constraint of l is returned before any
\* constraint of r, and and_v(vc:pk_k(pk0), c:pk_h(pk1)) spent with
\* [sig1, pk1, sig0] returns PublicKey pk0, PublicKeyHash pk1, then None
C5_AndVOrder ==
    /\ (inner.ctx = "Script" /\ inner.ms.t = "AndV") =>
          \A i \in 1..Len(out) : \A j \in (i + 1)..Len(out) :
              ~(/\ YieldedBy(inner.ms.subs[2], out[i])
                /\ YieldedBy(inner.ms.subs[1], out[j]))
    /\ Spends(ms_and_v, <<Sig(1), Push(to_bytes(1)), Sig(0)>>) =>
          ReturnsInOrder(<<PublicKeyOf(0), PublicKeyHashOf(1), None>>)

\* the spend of the scenario has run to its end
C5_Witness ==
    /\ Spends(ms_and_v, <<Sig(1), Push(to_bytes(1)), Sig(0)>>)
    /\ out = <<PublicKeyOf(0), PublicKeyHashOf(1), None>>

----------------------------------------------------------------------------
(* C6 to C10: Multi *)

RootMulti == inner.ctx = "Script" /\ inner.ms.t = "Multi"

\* the top n elements of the initial stack, the top first
TopOf(n) == [i \in 1..n |-> stack0[Len(stack0) - i + 1]]

\* C6: a Multi in its satisfaction form tries its keys from the last listed
\* to the first: its PublicKey constraints come in strictly decreasing
\* key-list position, each key at most once; each success consumes one
\* element and each failure none; and a spend that succeeds had the k
\* signatures on top of the extra zero, the one of the last listed signing
\* key on top
C6_MultiOrder ==
    RootMulti =>
        LET keys == inner.ms.keys
            k == inner.ms.n
            n == OkCount(out, Len(out))
        IN  /\ \A i \in 1..Len(out) : \A j \in (i + 1)..Len(out) :
                   (IsOk(out[i]) /\ IsOk(out[j])) =>
                       /\ out[i].kind = "PublicKey" /\ out[j].kind = "PublicKey"
                       /\ KeyPosition(keys, out[i].id) > KeyPosition(keys, out[j].id)
            /\ (state # <<>> /\ Len(out) >= 1) =>
                   /\ Last(state).n_satisfied = n
                   /\ stack = SubSeq(stack0, 1, Len(stack0) - n)
            /\ \A i \in 1..Len(out) :
                   IsOk(out[i]) =>
                       /\ OkCount(out, i) = i
                       /\ TopOf(i)[i].e = "Push"
                       /\ IsSigBy(out[i].id, TopOf(i)[i].v)
                       /\ out[i].sig = Front(TopOf(i)[i].v)
            /\ (out # <<>> /\ Last(out) = None /\ ~has_errored) =>
                   /\ n = k
                   /\ Len(stack0) = k + 1
                   /\ stack0[1] = Dissatisfied

\* multi(2, pk2, pk1, pk0) spent by pk2 and pk0: pk1 is tried and fails
\* between the two successes
C6_Witness ==
    /\ Spends(ms_multi, <<Dissatisfied, Sig(2), Sig(0)>>)
    /\ out = <<PublicKeyOf(0), PublicKeyOf(2), None>>

\* C7 as the specification states it: Multi(3, pk4, pk3, pk2, pk1, pk0)
\* spent with [0, sig0, sig1, sig2], sig2 on top, returns PublicKey pk0,
\* pk1, pk2 and then None
C7_AsStated ==
    Spends(ms_multi5, <<Dissatisfied, Sig(0), Sig(1), Sig(2)>>) =>
        ReturnsInOrder(<<PublicKeyOf(0), PublicKeyOf(1), PublicKeyOf(2), None>>)

\* C7: Multi(3, pk4, pk3, pk2, pk1, pk0) spent with [0, sig2, sig1, sig0],
\* sig0 on top, returns PublicKey pk0, pk1, pk2 and then None
C7_MultiScenario ==
    Spends(ms_multi5, <<Dissatisfied, Sig(2), Sig(1), Sig(0)>>) =>
        ReturnsInOrder(<<PublicKeyOf(0), PublicKeyOf(1), PublicKeyOf(2), None>>)

C7_Witness ==
    /\ Spends(ms_multi5, <<Dissatisfied, Sig(2), Sig(1), Sig(0)>>)
    /\ out = <<PublicKeyOf(0), PublicKeyOf(1), PublicKeyOf(2), None>>

\* the k elements on top of the extra zero are valid signatures by keys of
\* the Multi
KSignatures(keys, k) ==
    /\ Len(stack0) = k + 1
    /\ stack0[1] = Dissatisfied
    /\ \A i \in 2..(k + 1) :
           /\ stack0[i].e = "Push"
           /\ \E pk \in Range(keys) : IsSigBy(pk, stack0[i].v)

\* the signatures are in the order of their keys: the nearer the top, the
\* later the key is listed
InKeyOrder(keys, k) ==
    \A i \in 2..(k + 1) : \A j \in (i + 1)..(k + 1) :
        KeyPosition(keys, stack0[i].v[2]) < KeyPosition(keys, stack0[j].v[2])

\* C8: a Multi whose keys have all been tried with fewer than k successes
\* ends in Err(MultiSigEvaluationError): with pushes on top of the stack no
\* other error comes before the k-th success, and k valid signatures out of
\* the order of their keys end so, after the constraints already returned
C8_MultiSigEvaluationError ==
    RootMulti =>
        LET keys == inner.ms.keys
            k == inner.ms.n
        IN  /\ (/\ Len(stack0) >= k + 1
                /\ \A i \in 1..k : TopOf(k)[i].e = "Push") =>
                   \A i \in 1..Len(out) :
                       (IsErr(out[i]) /\ OkCount(out, i) < k) =>
                           out[i] = Err("MultiSigEvaluationError")
            /\ (KSignatures(keys, k) /\ ~InKeyOrder(keys, k)) =>
                   /\ OkCount(out, Len(out)) < k
                   /\ Len(out) >= k =>
                          \E i \in 1..k :
                              /\ out[i] = Err("MultiSigEvaluationError")
                              /\ \A j \in 1..(i - 1) : IsOk(out[j])

\* the repository's failing spend: [0, sig0, sig2, sig1] of multi(3, ...)
\* returns PublicKey pk1, PublicKey pk2 and then the error
C8_Witness ==
    /\ Spends(ms_multi5, <<Dissatisfied, Sig(0), Sig(2), Sig(1)>>)
    /\ out = <<PublicKeyOf(1), PublicKeyOf(2), Err("MultiSigEvaluationError")>>

\* C9: after the k-th success no further key is tried: the next call pops
\* one element, which must be Dissatisfied and becomes Satisfied, else the
\* call returns Err(MissingExtraZeroMultiSig); this holds also when the k-th
\* success came on the last key to try
C9_ExtraZero ==
    RootMulti =>
        LET k == inner.ms.n
            rest == SubSeq(stack0, 1, Len(stack0) - k)
        IN  /\ OkCount(out, Len(out)) <= k
            /\ \A i \in 1..(Len(out) - 1) :
                   (IsOk(out[i]) /\ OkCount(out, i) = k) =>
                       out[i + 1] =
                           IF rest # <<>> /\ Last(rest) = Dissatisfied
                           THEN IF Len(rest) = 1 THEN None
                                ELSE Err("ScriptSatisfactionError")
                           ELSE Err("MissingExtraZeroMultiSig")

\* multi(2, pk2, pk1, pk0) spent by pk2 and pk1: the second success comes
\* on pk2, the last key to try, and the spend still ends well
C9_Witness ==
    /\ Spends(ms_multi, <<Dissatisfied, Sig(2), Sig(1)>>)
    /\ out = <<PublicKeyOf(1), PublicKeyOf(2), None>>

\* the Multi a script visits first, on the untouched witness stack
RECURSIVE EntryMulti(_)
EntryMulti(ms) ==
    IF ms.t = "Multi" THEN <<ms>>
    ELSE IF ms.t \in {"Verify", "AndV", "OrD"} THEN EntryMulti(ms.subs[1])
    ELSE <<>>

AllDissatisfied(n) == \A i \in 1..n : TopOf(n)[i] = Dissatisfied

\* C10 as the specification states it: on the first visit of Multi(k, keys)
\* with at least k+1 elements, the non-satisfaction form, which returns no
\* constraint, is taken if the element below the top k+1 elements is
\* Dissatisfied
C10_AsStated ==
    (/\ inner.ctx = "Script"
     /\ EntryMulti(inner.ms) # <<>>
     /\ Len(stack0) > EntryMulti(inner.ms)[1].n + 1
     /\ stack0[Len(stack0) - (EntryMulti(inner.ms)[1].n + 1)] = Dissatisfied) =>
        \A i \in 1..Len(out) :
            ~(IsOk(out[i]) /\ out[i].id \in Range(EntryMulti(inner.ms)[1].keys))

\* C10: on the first visit of Multi(k, keys) with at least k+1 elements, the
\* non-satisfaction form is taken if the top element is Dissatisfied: no key
\* is checked and no constraint returned, the top k+1 elements must all be
\* Dissatisfied and are replaced by one Dissatisfied, else the call returns
\* Err(MissingExtraZeroMultiSig); in every other case the satisfaction form is
\* taken, which checks the top element against the last listed key first
C10_MultiFirstVisit ==
    (/\ inner.ctx = "Script"
     /\ EntryMulti(inner.ms) # <<>>
     /\ Len(stack0) >= EntryMulti(inner.ms)[1].n + 1
     /\ Len(out) >= 1) =>
        LET k == EntryMulti(inner.ms)[1].n
            keys == EntryMulti(inner.ms)[1].keys
            kept == SubSeq(stack0, 1, Len(stack0) - (k + 1))
        IN  IF Last(stack0) = Dissatisfied
            THEN /\ \A i \in 1..Len(out) :
                        ~(IsOk(out[i]) /\ out[i].id \in Range(keys))
                 /\ IF AllDissatisfied(k + 1)
                    THEN /\ out[1] # Err("MissingExtraZeroMultiSig")
                         /\ inner.ms.t = "Multi" =>
                                /\ out[1] = Err("ScriptSatisfactionError")
                                /\ stack = kept
                         /\ (inner.ms.t = "OrD" /\ kept = <<Sig(2)>>) =>
                                ReturnsInOrder(<<PublicKeyOf(2), None>>)
                    ELSE /\ out[1] = Err("MissingExtraZeroMultiSig")
                         /\ stack = kept
            ELSE /\ out[1] # Err("MissingExtraZeroMultiSig")
                 /\ (Last(stack0).e = "Push"
                     /\ IsSigBy(Last(keys), Last(stack0).v)) =>
                        out[1] = PublicKeyOf(Last(keys))
                 /\ (\A i \in 1..Len(out) : ~IsOk(out[i])) =>
                        (IsErr(out[1]) /\ out[1] # Err("ScriptSatisfactionError"))

\* or_d(multi(1, pk1, pk0), c:pk_k(pk2)) spent with [sig2, 0, 0]: the Multi
\* takes its non-satisfaction form and leaves a single Dissatisfied, on
\* which the or_d goes to its right branch
C10_Witness ==
    /\ Spends(ms_or_d_multi, <<Sig(2), Dissatisfied, Dissatisfied>>)
    /\ out = <<PublicKeyOf(2), None>>

----------------------------------------------------------------------------
(* C11 *)

\* the script is a Thresh whose children are key checks
RootThresh == inner.ctx = "Script" /\ inner.ms \in {ms_thresh, ms_thresh5}

\* the key of child i of the Thresh
ChildKey(i) == CHOOSE pk \in KeysOf(inner.ms.subs[i]) : TRUE

\* the element child i finds on top: the i-th from the top of the witness
ChildElement(i) == stack0[Len(stack0) - i + 1]

\* the children that were handed a push, in list order
PushedChildren ==
    LET n == IF Len(stack0) < Len(inner.ms.subs) THEN Len(stack0)
             ELSE Len(inner.ms.subs)
        RECURSIVE from(_)
        from(i) == IF i > n THEN <<>>
                   ELSE IF ChildElement(i).e = "Push" THEN <<i>> \o from(i + 1)
                   ELSE from(i + 1)
    IN  from(1)

\* every child is handed an empty element or a signature by its key
ChildrenDecided ==
    /\ Len(stack0) >= Len(inner.ms.subs)
    /\ \A i \in 1..Len(inner.ms.subs) :
           ChildElement(i) \in {Dissatisfied, Sig(ChildKey(i))}

----------------------------------------------------------------------------
(* C12 *)

\* the first n values next returns from the frames and the stack given
RECURSIVE Returns(_, _, _, _)
Returns(errored, frames, stk, n) ==
    IF n = 0 THEN <<>>
    ELSE CHOOSE r \in {<<res.ret>> \o Returns(res.has_errored, res.state, res.stack, n - 1)
                         : res \in {Iter_next(errored, frames, stk, <<>>, age, height)}}
             : TRUE

\* what the iteration of the script ms on the stack stk returns in as many
\* calls as were made
ReturnsOf(ms, stk, n) == Returns(FALSE, <<NodeEvaluationState(ms, 0, 0)>>, stk, n)

\* C12: OrI(l, r) pops the top element as selector: on Satisfied the
\* iteration returns what l alone returns on the rest of the stack, on
\* Dissatisfied what r alone returns, on a Push
\* Err(UnexpectedStackElementPush) and on the empty stack
\* Err(UnexpectedStackEnd).  AndOr(a, b, c) evaluates a first: when a is
\* satisfied by its signature the iteration returns a's constraint and then
\* what b alone returns on the rest, when a is dissatisfied what c alone
\* returns.  No constraint of the other branch is returned;
\* andor(c:pk_k(pk0), jtv:sha256(H), c:pk_h(pk1)) on [sig1, pk1, 0] returns
\* PublicKeyHash pk1 only, and then None.
C12_OneBranch ==
    /\ (inner.ctx = "Script" /\ inner.ms.t = "OrI" /\ out # <<>>) =>
           LET l == inner.ms.subs[1]
               r == inner.ms.subs[2]
           IN  IF stack0 = <<>> THEN out[1] = Err("UnexpectedStackEnd")
               ELSE CASE Last(stack0) = Satisfied ->
                             out = ReturnsOf(l, Front(stack0), Len(out))
                      [] Last(stack0) = Dissatisfied ->
                             out = ReturnsOf(r, Front(stack0), Len(out))
                      [] OTHER -> out[1] = Err("UnexpectedStackElementPush")
    /\ (inner.ctx = "Script" /\ inner.ms.t = "AndOr" /\ stack0 # <<>> /\ out # <<>>) =>
           LET a == inner.ms.subs[1]
               b == inner.ms.subs[2]
               c == inner.ms.subs[3]
               pk == CHOOSE x \in KeysOf(a) : TRUE
           IN  /\ Last(stack0) = Sig(pk) =>
                      /\ out[1] = PublicKeyOf(pk)
                      /\ Tail(out) = ReturnsOf(b, Front(stack0), Len(out) - 1)
                      /\ \A i \in 1..Len(out) : out[i].kind # "PublicKeyHash"
               /\ Last(stack0) = Dissatisfied =>
                      /\ out = ReturnsOf(c, Front(stack0), Len(out))
                      /\ \A i \in 1..Len(out) : out[i].kind \notin {"PublicKey", "Sha256"}
    /\ Spends(ms_andor, <<Sig(1), Push(to_bytes(1)), Dissatisfied>>) =>
           ReturnsInOrder(<<PublicKeyHashOf(1), None>>)

\* andor(c:pk_k(pk0), jtv:sha256(H), c:pk_h(pk1)) on [sig1, pk1, 0] has run
\* to its end
C12_Witness ==
    /\ Spends(ms_andor, <<Sig(1), Push(to_bytes(1)), Dissatisfied>>)
    /\ out = <<PublicKeyHashOf(1), None>>

----------------------------------------------------------------------------
(* C13 *)

\* the key whose check is the first thing a spend of ms does with the top
\* of the stack, if it starts with a key check
RECURSIVE FirstKeyCheck(_)
FirstKeyCheck(ms) ==
    CASE ms.t = "PkK" -> {ms.n}
      [] ms.t \in {"Alt", "Swap", "Check", "Verify", "ZeroNotEqual", "NonZero", "AndV",
                   "AndB", "OrB", "OrC", "OrD", "AndOr", "Thresh"} ->
             FirstKeyCheck(ms.subs[1])
      [] OTHER -> {}

\* the spend starts by checking the top of the witness stack, a push, as a
\* signature by pk
ChecksTopFor(pk) ==
    /\ stack0 # <<>>
    /\ Last(stack0).e = "Push"
    /\ \/ inner = PublicKey(pk)
       \/ inner.ctx = "Script" /\ pk \in FirstKeyCheck(inner.ms)

NonStandardTop == Last(Last(stack0).v) \notin StandardSigHash

NonStandardSigHash(bytes) == Item("Err", "NonStandardSigHash", 0, bytes)

\* C13 as the specification states it: in a script context and in a
\* key-only context alike, a signature checked whose last byte is not a
\* standard sighash flag makes the iteration return NonStandardSigHash with
\* the signature's bytes; an empty raw signature gives PkEvaluationError
C13_AsStated ==
    /\ \A pk \in Keys :
           (ChecksTopFor(pk) /\ NonStandardTop /\ out # <<>>) =>
               out[1] = NonStandardSigHash(Last(stack0).v)
    /\ \A pk \in Keys : verify_sersig(pk, <<>>) = ErrAt("PkEvaluationError", pk)

\* what the code does: NonStandardSigHash with the bytes in a script
\* context, PkEvaluationError with the key in a key-only context
C13_SigHashByContext ==
    /\ \A pk \in Keys :
           (ChecksTopFor(pk) /\ NonStandardTop /\ out # <<>>) =>
               out[1] = IF inner.ctx = "Script"
                        THEN NonStandardSigHash(Last(stack0).v)
                        ELSE ErrAt("PkEvaluationError", pk)
    /\ \A pk \in Keys : verify_sersig(pk, <<>>) = ErrAt("PkEvaluationError", pk)

\* a key-only spend of pk0 whose signature ends with the byte 4 has
\* returned an error
C13_Witness ==
    /\ inner = PublicKey(0)
    /\ stack0 = <<Push(RawSig(0, 0, 4))>>
    /\ Len(out) = 1
    /\ IsErr(out[1])

----------------------------------------------------------------------------
(* C14 *)

\* the node of the miniscript at which the satisfier chooses between two
\* branches: the root, or the OrC under the root t:or_c
ChoiceNode(ms) ==
    IF ms.t = "AndV" /\ ms.subs[1].t = "OrC" THEN ms.subs[1] ELSE ms

IsChoice(term) == term.t \in {"OrB", "OrC", "OrD", "OrI", "AndOr"}

\* both candidates are not Impossible and neither carries a signature
BothFree(pair) ==
    /\ pair[1].stack.w # "Impossible"
    /\ pair[2].stack.w # "Impossible"
    /\ ~pair[1].has_sig
    /\ ~pair[2].has_sig

\* C14: when the two candidate satisfactions of an OrB, OrC, OrD, OrI or
\* AndOr are both not Impossible and both without a signature, the
\* non-malleable satisfier returns Unavailable with has_sig = false for the
\* node, never a Stack; so does the dissatisfier for the two
\* dissatisfactions of an OrI
C14_NonMalleable ==
    /\ (satisfaction # OptNone /\ IsChoice(ChoiceNode(inner.ms))
          /\ BothFree(min_fn_args(ChoiceNode(inner.ms), lookup, root_has_sig, FALSE))) =>
           satisfaction[1] = Satisfaction(Witness_Unavailable, FALSE)
    /\ (dissatisfaction # OptNone /\ dissatisfaction[1].term.t = "OrI"
          /\ BothFree(min_fn_dissats(dissatisfaction[1].term, lookup, root_has_sig, FALSE))) =>
           dissatisfaction[1].sat = Satisfaction(Witness_Unavailable, FALSE)

\* or_d(sha256(H1), sha256(H2)) has been satisfied from a table that holds
\* both preimages
C14_Witness ==
    /\ inner.ms = ms_or_d_hashes
    /\ satisfaction # OptNone
    /\ lookup.preimages = HashlocksOf(ms_or_d_hashes)
    /\ BothFree(min_fn_args(ms_or_d_hashes, lookup, root_has_sig, FALSE))

----------------------------------------------------------------------------
(* C15 *)

\* the place of a witness in the order of Witness: a Stack by its size, then
\* Impossible, then Unavailable
Place(w) ==
    CASE w.w = "Stack" -> witness_size(w.v)
      [] w.w = "Impossible" -> 1000
      [] OTHER -> 1001

\* the smaller of two witnesses
Smaller(w1, w2) == IF Place(w2) < Place(w1) THEN w2 ELSE w1

\* rules (2) to (4) of the policy
ByHasSig(sat1, sat2) ==
    CASE ~sat1.has_sig /\ ~sat2.has_sig -> Satisfaction(Witness_Unavailable, FALSE)
      [] ~sat1.has_sig /\ sat2.has_sig -> Satisfaction(sat1.stack, FALSE)
      [] sat1.has_sig /\ ~sat2.has_sig -> Satisfaction(sat2.stack, FALSE)
      [] OTHER -> Satisfaction(Smaller(sat1.stack, sat2.stack), TRUE)

\* C15 as the specification states it: (1) when exactly one candidate is
\* Impossible the other is returned unchanged; otherwise (2) Unavailable
\* when neither has a signature, (3) the unsigned stack with has_sig =
\* false when exactly one has a signature, (4) the smaller stack with
\* has_sig = true when both have
C15_AsStated ==
    chosen # OptNone =>
        LET sat1 == candidates[1]
            sat2 == candidates[2]
        IN  chosen[1] =
                IF sat1.stack.w = "Impossible" /\ sat2.stack.w # "Impossible" THEN sat2
                ELSE IF sat2.stack.w = "Impossible" /\ sat1.stack.w # "Impossible" THEN sat1
                ELSE ByHasSig(sat1, sat2)

\* C15: Satisfaction::minimum(s1, s2) returns s2 unchanged when s1 is
\* Impossible, also when both are Impossible, and s1 unchanged when only s2
\* is Impossible; when neither is Impossible it returns Unavailable if
\* neither has a signature, the unsigned stack with has_sig = false if
\* exactly one has a signature (be it heavier, or Unavailable), and the
\* smaller stack under the order of Witness (a Stack by size, then
\* Impossible, then Unavailable) with has_sig = true if both have
C15_Minimum ==
    chosen # OptNone =>
        LET sat1 == candidates[1]
            sat2 == candidates[2]
        IN  chosen[1] =
                IF sat1.stack.w = "Impossible" THEN sat2
                ELSE IF sat2.stack.w = "Impossible" THEN sat1
                ELSE ByHasSig(sat1, sat2)

\* minimum has been called on a signed short stack and an unsigned longer
\* one
C15_Witness ==
    /\ chosen # OptNone
    /\ candidates = <<Satisfaction(Witness_Stack(<<RawSig(0, 0, SIGHASH_ALL)>>), TRUE),
                      Satisfaction(Witness_Stack(<<RawSig(1, 1, SIGHASH_ALL)>>), FALSE)>>

----------------------------------------------------------------------------
(* C16 *)

\* the keys of the set whose signature the table holds
Signable(pks) == {pk \in pks : lookup_sig(lookup, pk) # OptNone}

\* the signature of pk as the witness element the satisfier makes of it
SigElement(pk) == Witness_signature(lookup, pk).v[1]

\* the serialized size of the signatures of the keys of the set
RECURSIVE SigsSize(_)
SigsSize(pks) ==
    IF pks = {} THEN 0
    ELSE LET pk == CHOOSE x \in pks : TRUE
         IN  1 + Len(SigElement(pk)) + SigsSize(pks \ {pk})

\* the sets of k keys that can sign
KOutOf(pks, k) == {c \in SUBSET Signable(pks) : Cardinality(c) = k}

\* the size of the witness the satisfier chose
ChosenSize == witness_size(satisfaction[1].stack.v)

Chose == satisfaction # OptNone /\ satisfaction[1].stack.w = "Stack"

\* a Multi has one satisfaction for every k keys that can sign: the empty
\* element and the k signatures
MultiMinimal ==
    (Chose /\ inner.ms.t = "Multi") =>
        \A c \in KOutOf(Range(inner.ms.keys), inner.ms.n) : ChosenSize <= 1 + SigsSize(c)

\* a Thresh of key checks has one satisfaction for every k children that can
\* sign: their signatures and an empty element for each other child
ThreshMinimal ==
    (Chose /\ inner.ms \in {ms_thresh, ms_thresh5}) =>
        \A c \in KOutOf(KeysOf(inner.ms), inner.ms.n) :
            ChosenSize <= (Len(inner.ms.subs) - inner.ms.n) + SigsSize(c)

\* a choice between two signed satisfactions
ChoiceMinimal ==
    (Chose /\ IsChoice(inner.ms)) =>
        LET pair == min_fn_args(inner.ms, lookup, root_has_sig, FALSE)
        IN  (pair[1].has_sig /\ pair[2].has_sig) =>
                \A i \in 1..2 :
                    pair[i].stack.w = "Stack" => ChosenSize <= witness_size(pair[i].stack.v)

\* C16 as the specification states it: the stack the non-malleable
\* satisfier chooses is no larger in bytes than any other non-malleable
\* satisfaction of the fragment, for a Multi with more than k signatures of
\* different lengths and a Thresh with more than k satisfiable children too
C16_AsStated == MultiMinimal /\ ThreshMinimal /\ ChoiceMinimal

\* what the code does: minimal for a Thresh of key checks and for a choice
\* between two signed satisfactions; a Multi keeps the signatures of the
\* first k keys that can sign, whatever their lengths
C16_MinimalButMulti ==
    /\ ThreshMinimal
    /\ ChoiceMinimal
    /\ (Chose /\ inner.ms.t = "Multi") =>
           \E c \in KOutOf(Range(inner.ms.keys), inner.ms.n) :
               /\ ChosenSize = 1 + SigsSize(c)
               /\ \A i, j \in 1..Len(inner.ms.keys) :
                      (i < j /\ inner.ms.keys[j] \in c /\ inner.ms.keys[i] \in Signable(KeysOf(inner.ms)))
                          => inner.ms.keys[i] \in c

\* multi(1, pk1, pk0) has been satisfied from a table in which the
\* signature of pk1 is one byte longer than that of pk0
C16_Witness ==
    /\ Chose
    /\ inner.ms = ms_multi1
    /\ Signable({0, 1}) = {0, 1}
    /\ Len(SigElement(1)) > Len(SigElement(0))

----------------------------------------------------------------------------
(* C17 *)

\* the empty element and the signatures of the keys of the set, in the
\* order of the key list
RECURSIVE KeptStack(_, _)
KeptStack(keys, kept) ==
    IF keys = <<>> THEN <<>>
    ELSE KeptStack(Front(keys), kept)
             \o (IF Last(keys) \in kept THEN <<SigElement(Last(keys))>> ELSE <<>>)

\* the Multi was satisfied from a table with fewer than k signatures: the
\* satisfaction is Impossible
MultiImpossible ==
    (satisfaction # OptNone /\ inner.ms.t = "Multi"
       /\ Cardinality(Signable(Range(inner.ms.keys))) < inner.ms.n) =>
        satisfaction[1].stack = Witness_Impossible

\* the Multi was satisfied from a table with k signatures or more: the
\* stack is the empty element and the signatures of k keys, in key order
MultiKeeps(kept) ==
    /\ kept \in KOutOf(Range(inner.ms.keys), inner.ms.n)
    /\ satisfaction[1] =
           Satisfaction(Witness_Stack(<<<<>>>> \o KeptStack(inner.ms.keys, kept)), TRUE)

\* C17 as the specification states it: with fewer than k signatures the
\* satisfaction of Multi(k, keys) is Impossible; otherwise the stack is one
\* empty element and the k cheapest signatures in key order, the
\* signatures dropped being the largest by byte length, with has_sig = true
C17_AsStated ==
    /\ MultiImpossible
    /\ (satisfaction # OptNone /\ inner.ms.t = "Multi"
          /\ Cardinality(Signable(Range(inner.ms.keys))) >= inner.ms.n) =>
           \E kept \in SUBSET Range(inner.ms.keys) :
               /\ MultiKeeps(kept)
               /\ \A a \in kept : \A b \in Signable(Range(inner.ms.keys)) \ kept :
                      Len(SigElement(a)) <= Len(SigElement(b))

\* what the code does: the signatures kept are those of the first k keys
\* of the list that have one
C17_KeepsFirst ==
    /\ MultiImpossible
    /\ (satisfaction # OptNone /\ inner.ms.t = "Multi"
          /\ Cardinality(Signable(Range(inner.ms.keys))) >= inner.ms.n) =>
           \E kept \in SUBSET Range(inner.ms.keys) :
               /\ MultiKeeps(kept)
               /\ \A a \in kept : \A b \in Signable(Range(inner.ms.keys)) \ kept :
                      KeyPosition(inner.ms.keys, a) < KeyPosition(inner.ms.keys, b)

\* multi(2, pk2, pk1, pk0) has been satisfied from a table with all three
\* signatures, that of pk2 one byte longer than the others
C17_Witness ==
    /\ satisfaction # OptNone
    /\ inner.ms = ms_multi
    /\ Signable({0, 1, 2}) = {0, 1, 2}
    /\ Len(SigElement(2)) > Len(SigElement(1))
    /\ Len(SigElement(2)) > Len(SigElement(0))

----------------------------------------------------------------------------
(* C18 *)

\* the satisfaction and the dissatisfaction of child i of the Thresh
ChildSat(i) == satisfy_helper(inner.ms.subs[i], lookup, root_has_sig, FALSE)
ChildDissat(i) == dissatisfy_helper(inner.ms.subs[i], lookup, root_has_sig, FALSE)

\* sat_size - dsat_size; a satisfaction that is no stack weighs most, a
\* dissatisfaction that is no stack makes the child weigh least
SizeDelta(i) ==
    IF ChildSat(i).stack.w # "Stack" THEN 10000
    ELSE IF ChildDissat(i).stack.w # "Stack" THEN -10000
    ELSE witness_size(ChildSat(i).stack.v) - witness_size(ChildDissat(i).stack.v)

\* child a ranks strictly before child b under the key (satisfaction is
\* Impossible, satisfaction has a signature, sat_size - dsat_size)
RanksBefore(a, b) ==
    LET imp(i) == IF ChildSat(i).stack.w = "Impossible" THEN 1 ELSE 0
        sig(i) == IF ChildSat(i).has_sig THEN 1 ELSE 0
    IN  \/ imp(a) < imp(b)
        \/ imp(a) = imp(b) /\ sig(a) < sig(b)
        \/ imp(a) = imp(b) /\ sig(a) = sig(b) /\ SizeDelta(a) < SizeDelta(b)

\* the part of child i when the children of first are satisfied
Part(first, i) == IF i \in first THEN ChildSat(i) ELSE ChildDissat(i)

\* the parts put together, the first child's part last
RECURSIVE Combination(_, _)
Combination(first, i) ==
    IF i = 0 THEN <<>> ELSE Part(first, i).stack.v \o Combination(first, i - 1)

\* C18: the non-malleable satisfier of Thresh(k, subs) satisfies k children
\* that rank first under the key (satisfaction is Impossible, satisfaction
\* has a signature, sat_size - dsat_size) and dissatisfies the others.  The
\* result is Impossible if the k-th ranked satisfaction is Impossible; else
\* Unavailable with has_sig = false if a child outside the first k has a
\* satisfaction that is not Impossible and has no signature; else the
\* combination of the parts with the first child's part last in the stack,
\* and has_sig iff some part has a signature
C18_ThreshSatisfier ==
    (satisfaction # OptNone /\ inner.ms.t = "Thresh") =>
        LET n == Len(inner.ms.subs)
            k == inner.ms.n
            res == satisfaction[1]
        IN  \E first \in SUBSET (1..n) :
                /\ Cardinality(first) = k
                /\ \A a \in first : \A b \in (1..n) \ first : ~RanksBefore(b, a)
                /\ IF \E a \in first : ChildSat(a).stack.w = "Impossible"
                   THEN res.stack = Witness_Impossible
                   ELSE IF \E b \in (1..n) \ first :
                               ChildSat(b).stack.w # "Impossible" /\ ~ChildSat(b).has_sig
                   THEN res = Satisfaction(Witness_Unavailable, FALSE)
                   ELSE /\ res.has_sig = (\E i \in 1..n : Part(first, i).has_sig)
                        /\ res.stack =
                               IF \A i \in 1..n : Part(first, i).stack.w = "Stack"
                               THEN Witness_Stack(Combination(first, n))
                               ELSE Witness_Unavailable

\* thresh(2, c:pk_k(pk2), sc:pk_k(pk1), sc:pk_k(pk0)) has been satisfied
\* from a table without the signature of pk2: the children are not
\* satisfied in list order
C18_Witness ==
    /\ satisfaction # OptNone
    /\ inner.ms = ms_thresh
    /\ Signable({0, 1, 2}) = {0, 1}
    /\ satisfaction[1].stack.w = "Stack"

----------------------------------------------------------------------------
(* C19: the canonical dissatisfaction of the fragments without children's
   dissatisfactions *)

\* The dissatisfaction computed for a term of the kind t, if one was computed
Dissatisfies(t) == dissatisfaction # OptNone /\ dissatisfaction[1].term.t = t

\* C19 as stated: whatever the lookup table holds, the dissatisfaction is
\* Impossible with has_sig = false for True, Older, After, Verify, OrC and
\* DupIf, and the empty stack for False.
C19_AsStated ==
    /\ \A t \in {"True", "Older", "After", "Verify", "OrC", "DupIf"} :
           Dissatisfies(t) =>
               dissatisfaction[1].sat = [stack |-> Witness_Impossible, has_sig |-> FALSE]
    /\ Dissatisfies("False") =>
           dissatisfaction[1].sat = [stack |-> Witness_Stack(<<>>), has_sig |-> FALSE]

\* C19: whatever the lookup table holds, the dissatisfaction is Impossible
\* with has_sig = false for True, Older, After, Verify and OrC; it is the stack
\* of one empty element (push_0) with has_sig = false for DupIf, and the empty
\* stack with has_sig = false for False.
C19_Dissatisfactions ==
    /\ \A t \in {"True", "Older", "After", "Verify", "OrC"} :
           Dissatisfies(t) =>
               dissatisfaction[1].sat = [stack |-> Witness_Impossible, has_sig |-> FALSE]
    /\ Dissatisfies("DupIf") =>
           dissatisfaction[1].sat = [stack |-> Witness_Stack(<<<<>>>>), has_sig |-> FALSE]
    /\ Dissatisfies("False") =>
           dissatisfaction[1].sat = [stack |-> Witness_Stack(<<>>), has_sig |-> FALSE]

\* The dissatisfaction of d:v:after(2) was computed under a lookup table that
\* holds the signature of pk0 and meets the timelock
C19_Witness ==
    /\ Dissatisfies("DupIf")
    /\ dissatisfaction[1].term = DupIf(Verify(After(2)))
    /\ lookup_sig(lookup, 0) # OptNone
    /\ check_after(lookup, 2)
    /\ dissatisfaction[1].sat.stack = Witness_Stack(<<<<>>>>)

----------------------------------------------------------------------------
(* C20: the satisfaction of a timelock and the flag root_has_sig *)

\* the stack of a timelock's satisfaction: empty when the table's check is
\* true, else Impossible under a root signature and Unavailable without
TimelockStack(met) ==
    IF met THEN Witness_Stack(<<>>)
    ELSE IF root_has_sig THEN Witness_Impossible
    ELSE Witness_Unavailable

\* C20: the satisfaction of after(t) and of older(t) is the empty stack when
\* check_after(t) / check_older(t) is true, and otherwise Impossible when
\* root_has_sig is true and Unavailable when it is false, with has_sig = false
\* in the three cases; the same flag reaches the timelocks below the root:
\* and_v(v:after(2), older(4)) is the empty stack when both checks are true
\* and otherwise Impossible or Unavailable by the flag, and
\* and_b(c:pk_k(pk0), a:d:v:after(2)) with the signature in the table and the
\* timelock not met is Impossible or Unavailable by the flag.
C20_Timelocks ==
    satisfaction # OptNone =>
        /\ inner.ms = After(2) =>
               satisfaction[1] = [stack |-> TimelockStack(check_after(lookup, 2)),
                                  has_sig |-> FALSE]
        /\ inner.ms = Older(2) =>
               satisfaction[1] = [stack |-> TimelockStack(check_older(lookup, 2)),
                                  has_sig |-> FALSE]
        /\ inner.ms = AndV(Verify(After(2)), Older(4)) =>
               satisfaction[1] =
                   [stack |-> TimelockStack(check_after(lookup, 2) /\ check_older(lookup, 4)),
                    has_sig |-> FALSE]
        /\ (/\ inner.ms = AndB(Check(PkK(0)), Alt(DupIf(Verify(After(2)))))
            /\ lookup_sig(lookup, 0) # OptNone
            /\ ~check_after(lookup, 2)) =>
               satisfaction[1].stack = TimelockStack(FALSE)

\* and_v(v:after(2), older(4)) was satisfied under a root signature with
\* after(2) met and older(4) not met: the satisfaction is Impossible
C20_Witness ==
    /\ satisfaction # OptNone
    /\ inner.ms = AndV(Verify(After(2)), Older(4))
    /\ check_after(lookup, 2)
    /\ ~check_older(lookup, 4)
    /\ root_has_sig
    /\ satisfaction[1] = [stack |-> Witness_Impossible, has_sig |-> FALSE]

----------------------------------------------------------------------------
(* C21: the lexer and VERIFY *)

EqualLike == {"OP_EQUAL", "OP_CHECKSIG", "OP_CHECKMULTISIG"}

\* the token of an EQUAL, CHECKSIG or CHECKMULTISIG opcode
CheckToken(op) ==
    CASE op \in {"OP_EQUAL", "OP_EQUALVERIFY"} -> Token("Equal")
      [] op \in {"OP_CHECKSIG", "OP_CHECKSIGVERIFY"} -> Token("CheckSig")
      [] op \in {"OP_CHECKMULTISIG", "OP_CHECKMULTISIGVERIFY"} -> Token("CheckMultiSig")

\* the i-th instruction is EQUAL, CHECKSIG or CHECKMULTISIG and the next one
\* is a standalone VERIFY
NonMinimalAt(i) ==
    /\ i >= 1 /\ i < Len(script)
    /\ script[i].ins = "Op" /\ script[i].op \in EqualLike
    /\ script[i + 1] = Op("OP_VERIFY")

\* the instruction is one lex fails on, whatever comes before it
FailsAlone(ins) == lex_instruction(ins, <<>>).r = "Err"

\* the tokens of the instructions before the i-th, each opcode with VERIFY
\* giving its two tokens
RECURSIVE Expansion(_)
Expansion(i) ==
    IF i = 0 THEN <<>>
    ELSE Expansion(i - 1) \o
             (IF script[i].ins = "Op" /\ script[i].op \in DOMAIN WithVerify
              THEN <<CheckToken(script[i].op), Token("Verify")>>
              ELSE lex_instruction(script[i], <<>>).v)

----------------------------------------------------------------------------
(* C22 and C29: relative locktimes *)

\* bit 31, bit 22 and the low 16 bits of a u32
HasDisableFlag(x) == x.hi >= 32768
HasTypeFlag(x) == (x.hi \div 64) % 2 = 1
LockValue(x) == x.lo

\* n and the sequence are of the same unit and n is at most the sequence
EncodedBy(seq, n) ==
    /\ HasTypeFlag(n) = HasTypeFlag(seq)
    /\ LockValue(n) <= LockValue(seq)

\* the call name was made with the argument n and returned the value r
CallReturned(name, n, r) ==
    /\ answer # OptNone
    /\ answer[1].call = name
    /\ answer[1].arg = n
    /\ answer[1].ret = [panicked |-> FALSE, v |-> r]

SequenceOf0 == psbt[1].unsigned_tx.input[1].sequence

\* C22: PsbtInputSatisfier.check_older(n) is true when n has the disable
\* flag; otherwise false when the version is below 2 or the sequence has the
\* disable flag; otherwise it is Older(sequence).check_older(n), which is true
\* only when n and the sequence are of the same unit and the masked value of
\* n is at most that of the sequence.
C22_CheckOlder ==
    (answer # OptNone /\ answer[1].call = "check_older") =>
        LET n == answer[1].arg
            r == answer[1].ret.v
            version == psbt[1].unsigned_tx.version
        IN  /\ ~answer[1].ret.panicked
            /\ HasDisableFlag(n) => r = TRUE
            /\ (~HasDisableFlag(n) /\ (version < 2 \/ HasDisableFlag(SequenceOf0))) =>
                   r = FALSE
            /\ (~HasDisableFlag(n) /\ version >= 2 /\ ~HasDisableFlag(SequenceOf0)) =>
                   /\ r = Older_check_older(SequenceOf0, n)
                   /\ r <=> EncodedBy(SequenceOf0, n)

\* check_older(2 blocks) was asked of a version 2 transaction whose sequence
\* is 65535 blocks, and returned true
C22_Witness ==
    /\ CallReturned("check_older", U32(0, 2), TRUE)
    /\ psbt[1].unsigned_tx.version = 2
    /\ SequenceOf0 = U32(0, 65535)

\* C29 as stated: Older(seq).check_older(n) is true only if seq has the
\* disable flag clear, seq and n have the same type flag and
\* (n & 0xffff) <= (seq & 0xffff).
C29_AsStated ==
    \A n \in Locktimes :
        CallReturned("Older", n, TRUE) =>
            ~HasDisableFlag(SequenceOf0) /\ EncodedBy(SequenceOf0, n)

\* C29: Older(seq).check_older(n) is true for every n when seq has the
\* disable flag set, and otherwise exactly when seq and n have the same type
\* flag and (n & 0xffff) <= (seq & 0xffff).
C29_OlderAccepts ==
    \A n \in Locktimes : \A r \in BOOLEAN :
        CallReturned("Older", n, r) =>
            (r <=> (HasDisableFlag(SequenceOf0) \/ EncodedBy(SequenceOf0, n)))

\* Older(seq) with the disable flag set in seq was asked for 65535 units of
\* time, more than the value of seq, and returned true
C29_Witness ==
    /\ CallReturned("Older", U32(64, 65535), TRUE)
    /\ SequenceOf0 = U32(32768, 1)

----------------------------------------------------------------------------
(* C23: extract *)

\* the inputs, counted from 0, that have neither final_script_sig nor
\* final_script_witness
MissingWitness(psbt_) ==
    {n \in 0..(Len(psbt_.inputs) - 1) :
         /\ psbt_.inputs[n + 1].final_script_sig = OptNone
         /\ psbt_.inputs[n + 1].final_script_witness = OptNone}

\* what extract returned is right for the PSBT it was called on
ExtractedRight ==
    (answer # OptNone /\ answer[1].call = "extract") =>
        LET p == psbt[1]
            res == answer[1].ret
            in_tx == Len(p.unsigned_tx.input)
            in_map == Len(p.inputs)
            missing == MissingWitness(p)
        IN  /\ in_tx # in_map =>
                   res = [r |-> "Err", e |-> "WrongInputCount",
                          in_tx |-> in_tx, in_map |-> in_map]
            /\ (in_tx = in_map /\ missing # {}) =>
                   res = [r |-> "Err", e |-> "MissingWitness",
                          n |-> CHOOSE n \in missing : \A m \in missing : n <= m]
            /\ res.r = "Ok" <=> (in_tx = in_map /\ missing = {} /\ answer[1].arg = {})
            /\ res.r = "Ok" =>
                   /\ res.tx.version = p.unsigned_tx.version
                   /\ Len(res.tx.input) = in_map
                   /\ \A i \in 1..in_map :
                          /\ res.tx.input[i].sequence = p.unsigned_tx.input[i].sequence
                          /\ res.tx.input[i].script_sig =
                                 (IF p.inputs[i].final_script_sig = OptNone THEN <<>>
                                  ELSE p.inputs[i].final_script_sig[1])
                          /\ res.tx.input[i].witness =
                                 (IF p.inputs[i].final_script_witness = OptNone THEN <<>>
                                  ELSE p.inputs[i].final_script_witness[1])

\* C23: extract fails with WrongInputCount when the number of input maps
\* differs from the number of transaction inputs, and otherwise with
\* InputError(MissingWitness, n) for the first input n that has neither
\* final_script_sig nor final_script_witness; a transaction is returned only
\* if every input has one of the two and the interpreter check passed, and
\* then each of its inputs carries exactly the final script_sig and the final
\* witness present in the PSBT; the PSBT is left unchanged.
C23_Extract == []ExtractedRight /\ [][psbt' = psbt]_vars

\* extract returned the transaction of a PSBT of two inputs, the first with a
\* final witness only and the second with a final script_sig only
C23_Witness ==
    /\ answer # OptNone
    /\ answer[1].call = "extract"
    /\ Len(psbt[1].inputs) = 2
    /\ psbt[1].inputs[1].final_script_sig = OptNone
    /\ psbt[1].inputs[2].final_script_witness = OptNone
    /\ answer[1].ret.r = "Ok"
    /\ answer[1].ret.tx.input[1].witness = <<<<72>>, <<73>>>>
    /\ answer[1].ret.tx.input[2].script_sig = <<71>>

----------------------------------------------------------------------------
(* C30: the lookups of PsbtInputSatisfier *)

\* the raw signature partial_sigs of input 0 holds for the key, if any
RawSigOf(pk) == {e[2] : e \in {f \in psbt[1].inputs[1].partial_sigs : f[1] = pk}}

\* the raw signature ends in a standard sighash byte after DER bytes
WellFormed(rawsig) ==
    /\ Len(rawsig) >= 3
    /\ rawsig[Len(rawsig)] \in {1, 2, 3, 129, 130, 131}
    /\ rawsig[1] = 48

\* C30 as stated: for every byte string stored in partial_sigs, the empty one
\* included, lookup_sig and lookup_pkh_sig return None or Some and never panic.
C30_AsStated ==
    (answer # OptNone /\ answer[1].call \in {"lookup_sig", "lookup_pkh_sig"}) =>
        ~answer[1].ret.panicked

\* C30: lookup_sig and lookup_pkh_sig panic exactly when the byte string
\* stored for the key is empty; otherwise they return Some for a well-formed
\* signature and None for a key without entry, for a sighash byte that is not
\* standard and for bytes that are not DER.
C30_Lookups ==
    \A pk \in {0, 1} :
        (/\ answer # OptNone
         /\ \/ answer[1].call = "lookup_sig" /\ answer[1].arg = pk
            \/ answer[1].call = "lookup_pkh_sig" /\ answer[1].arg = 100 + pk) =>
            LET ret == answer[1].ret
            IN  /\ ret.panicked <=> RawSigOf(pk) = {<<>>}
                /\ ~ret.panicked =>
                       (ret.v # OptNone <=> \E raw \in RawSigOf(pk) : WellFormed(raw))
                /\ (~ret.panicked /\ ret.v # OptNone) =>
                       LET sig == IF answer[1].call = "lookup_sig" THEN ret.v[1]
                                  ELSE ret.v[1].sig
                       IN  RawSigOf(pk) = {Append(sig.sig, sig.hashtype)}

\* lookup_sig(pk0) was called on a PSBT whose partial_sigs holds the empty
\* byte string for pk0, and panicked
C30_Witness ==
    /\ answer # OptNone
    /\ answer[1].call = "lookup_sig"
    /\ answer[1].arg = 0
    /\ <<0, <<>>>> \in psbt[1].inputs[1].partial_sigs
    /\ answer[1].ret.panicked

----------------------------------------------------------------------------
(* C24: the iteration terminates *)

\* the number of children or keys of a node
Width(ms) == IF ms.t = "Multi" THEN Len(ms.keys) ELSE Len(ms.subs)

\* a bound on the frames popped for a script: every node once and once more
\* per child or key
RECURSIVE FrameBound(_)
RECURSIVE FrameBoundOfSubs(_, _)
FrameBound(ms) == 1 + Width(ms) + FrameBoundOfSubs(ms, Len(ms.subs))
FrameBoundOfSubs(ms, i) ==
    IF i = 0 THEN 0 ELSE FrameBound(ms.subs[i]) + FrameBoundOfSubs(ms, i - 1)

\* a bound on the constraints a script yields: one per leaf that checks
\* something and one per key of a Multi
RECURSIVE YieldBound(_)
RECURSIVE YieldBoundOfSubs(_, _)
YieldBound(ms) ==
    (IF ms.t = "Multi" THEN Len(ms.keys)
     ELSE IF ms.subs = <<>> /\ ms.t \notin {"True", "False"} THEN 1 ELSE 0)
        + YieldBoundOfSubs(ms, Len(ms.subs))
YieldBoundOfSubs(ms, i) ==
    IF i = 0 THEN 0 ELSE YieldBound(ms.subs[i]) + YieldBoundOfSubs(ms, i - 1)

\* one of the first n values returned is None or an error
EndsWithin(n) == \E i \in 1..n : i <= Len(out) /\ (out[i] = None \/ IsErr(out[i]))

\* C24: the iteration terminates.  The frames popped over all calls of next
\* are at most FrameBound of the AST, the frames of a Thresh or Multi are
\* popped with strictly growing n_evaluated and at most once more than it has
\* children or keys, and next returns None or an error within one call more
\* than the constraints the AST can yield (within two calls in a key-only
\* context, where no frame is popped).
C24_Terminates ==
    /\ inner.ctx = "Script" =>
           /\ Len(popped) <= FrameBound(inner.ms)
           /\ \A i \in 1..Len(popped) :
                  popped[i].t \in {"Thresh", "Multi"} =>
                      /\ Cardinality({j \in 1..Len(popped) : popped[j].t = popped[i].t})
                             <= 1 + popped[i].width
                      /\ \A j \in (i + 1)..Len(popped) :
                             popped[j].t = popped[i].t =>
                                 popped[j].n_evaluated > popped[i].n_evaluated
           /\ Len(out) > YieldBound(inner.ms) => EndsWithin(YieldBound(inner.ms) + 1)
    /\ inner.ctx = "PublicKey" =>
           /\ popped = <<>>
           /\ Len(out) >= 2 => EndsWithin(2)

\* thresh(2, c:pk_k(pk2), sc:pk_k(pk1), sc:pk_k(pk0)) was run to its end on
\* three signatures: four visits of the Thresh frame, three constraints and an
\* error
C24_Witness ==
    /\ inner = Script(ms_thresh)
    /\ stack0 = <<Sig(0), Sig(1), Sig(2)>>
    /\ Cardinality({j \in 1..Len(popped) : popped[j].t = "Thresh"}) = 4
    /\ Len(out) = 4
    /\ IsErr(out[4])

----------------------------------------------------------------------------
(* C28: the counters of the frames *)

Leaves ==
    {"True", "False", "PkK", "PkH", "After", "Older",
     "Sha256", "Hash256", "Hash160", "Ripemd160"}

\* the largest n_evaluated a frame of this kind of node is popped with
MaxEvaluated(v) ==
    IF v.t \in Leaves \cup {"Alt", "Swap", "Check", "NonZero", "AndV"} THEN 0
    ELSE IF v.t \in {"DupIf", "Verify", "ZeroNotEqual", "OrC", "OrD", "AndOr"} THEN 1
    ELSE IF v.t \in {"AndB", "OrB"} THEN 2
    ELSE v.width

\* C28: every frame popped has n_satisfied <= n_evaluated <= the number of
\* children or keys of its node, both counters are 0 for leaves, Alt, Swap,
\* Check, NonZero and AndV, n_evaluated is at most 1 for DupIf, Verify,
\* ZeroNotEqual, OrC, OrD and AndOr and at most 2 for AndB and OrB; and next
\* never returns CouldNotEvaluate.
C28_FrameInvariant ==
    /\ \A i \in 1..Len(popped) :
           /\ popped[i].n_satisfied <= popped[i].n_evaluated
           /\ popped[i].n_evaluated <= popped[i].width
           /\ popped[i].n_evaluated <= MaxEvaluated(popped[i])
    /\ \A i \in 1..Len(out) : out[i] # Err("CouldNotEvaluate")

\* and_b(c:pk_k(pk0), a:d:v:after(2)) was run to its end: the AndB frame was
\* popped three times, the last time with both children evaluated and one
\* satisfied, and the DupIf frame twice
C28_Witness ==
    /\ inner = Script(ms_dupif)
    /\ \E i \in 1..Len(popped) :
           popped[i] = [t |-> "AndB", width |-> 2, n_evaluated |-> 2, n_satisfied |-> 1]
    /\ \E i \in 1..Len(popped) :
           popped[i] = [t |-> "DupIf", width |-> 1, n_evaluated |-> 1, n_satisfied |-> 1]
    /\ Len(out) >= 2
    /\ out[Len(out)] = None

----------------------------------------------------------------------------
(* C26 *)

\* the frames given, run until none is left: the constraints and the error
\* returned on the way, the stack left, and whether an error ended the run
RECURSIVE Evaluate(_, _)
Evaluate(frames, stk) ==
    IF frames = <<>> THEN [yields |-> <<>>, stack |-> stk, failed |-> FALSE]
    ELSE CHOOSE e \in
             {IF turn.ret = Cont THEN Evaluate(turn.state, turn.stack)
              ELSE IF IsErr(turn.ret)
              THEN [yields |-> <<turn.ret>>, stack |-> turn.stack, failed |-> TRUE]
              ELSE [yields |-> <<turn.ret>> \o Evaluate(turn.state, turn.stack).yields,
                    stack |-> Evaluate(turn.state, turn.stack).stack,
                    failed |-> Evaluate(turn.state, turn.stack).failed] :
                  turn \in {Step(Front(frames), Last(frames), stk, age, height)}} : TRUE

\* nothing but None is returned any more
Nones == [i \in 1..MaxCalls |-> None]

\* what next returns for a node OrC(l, r) or OrD(l, r) that is evaluated on
\* the whole witness stack with the frames below waiting under it, when the
\* node does what is stated: l is evaluated first; its result is popped; on
\* Satisfied the frames below go on with the rest of the stack (under
\* Satisfied for OrD) and r is left out; on Dissatisfied r is evaluated on
\* the rest of the stack and the frames below go on with its result; a Push
\* is Err(UnexpectedStackElementPush)
ShortCircuit(node, below) ==
    LET l == node.subs[1]
        r == node.subs[2]
        e == Evaluate(<<NodeEvaluationState(l, 0, 0)>>, stack0)
        rest == Front(e.stack)
    IN  e.yields \o
        (IF e.failed THEN Nones
         ELSE IF e.stack = <<>> THEN <<Err("UnexpectedStackEnd")>> \o Nones
         ELSE CASE Last(e.stack) = Satisfied ->
                       Returns(FALSE, below,
                               IF node.t = "OrD" THEN Append(rest, Satisfied) ELSE rest,
                               MaxCalls)
                [] Last(e.stack) = Dissatisfied ->
                       Returns(FALSE, Append(below, NodeEvaluationState(r, 0, 0)), rest,
                               MaxCalls)
                [] OTHER -> <<Err("UnexpectedStackElementPush")>> \o Nones)

\* the constraints among the values returned
Yielded == {out[i] : i \in {j \in 1..Len(out) : IsOk(out[j])}}

\* C26: OrC(l, r) and OrD(l, r) short-circuit on the result of l.  For a
\* script or_d(l, r) and for a script and_v(or_c(l, r), 1) the values next
\* returns are those of ShortCircuit; a frame OrC or OrD popped with
\* n_evaluated = 1 on a stack whose top is a Push returns
\* Err(UnexpectedStackElementPush); or_d(c:pk_k(pk0), jtv:sha256(H)) on
\* [sig0] returns the key and None, on [preimage, sig0] the key, no hash and
\* an error at the end, the preimage being left, and on [preimage, 0] the
\* hash and None; and_v(or_c(jtv:sha256(H), v:c:pk_k(pk0)), 1) on
\* [sig0, preimage] returns the hash, no key and an error at the end, sig0
\* being left.
C26_ShortCircuit ==
    /\ (inner.ctx = "Script" /\ inner.ms.t = "OrD") =>
           ReturnsInOrder(ShortCircuit(inner.ms, <<>>))
    /\ (inner.ctx = "Script" /\ inner.ms.t = "AndV" /\ inner.ms.subs[1].t = "OrC") =>
           ReturnsInOrder(ShortCircuit(inner.ms.subs[1],
                                       <<NodeEvaluationState(inner.ms.subs[2], 0, 0)>>))
    /\ (inner.ctx = "Script" /\ stack0 # <<>> /\ Last(stack0).e = "Push") =>
           \A node \in {ms \in {inner.ms} \cup {inner.ms.subs[i] : i \in 1..Len(inner.ms.subs)} :
                            ms.t \in {"OrC", "OrD"}} :
               Returns(FALSE, <<NodeEvaluationState(node, 1, 0)>>, stack0, 1)
                   = <<Err("UnexpectedStackElementPush")>>
    /\ (Spends(ms_or_d, <<Sig(0)>>) /\ Len(out) >= 2) =>
           /\ SubSeq(out, 1, 2) = <<PublicKeyOf(0), None>>
           /\ Yielded = {PublicKeyOf(0)}
    /\ (Spends(ms_or_d, <<Push(Preimage(7)), Sig(0)>>) /\ Len(out) >= 2) =>
           /\ SubSeq(out, 1, 2) = <<PublicKeyOf(0), Err("ScriptSatisfactionError")>>
           /\ Yielded = {PublicKeyOf(0)}
    /\ (Spends(ms_or_d, <<Push(Preimage(7)), Dissatisfied>>) /\ Len(out) >= 2) =>
           /\ out[1].kind = "Sha256"
           /\ out[2] = None
    /\ (Spends(ms_or_c, <<Sig(0), Push(Preimage(7))>>) /\ Len(out) >= 2) =>
           /\ out[1].kind = "Sha256"
           /\ out[2] = Err("ScriptSatisfactionError")
           /\ \A c \in Yielded : c.kind = "Sha256"

\* or_d(c:pk_k(pk0), jtv:sha256(H)) was spent on [preimage, sig0]: the key
\* was returned, the preimage was left on the stack and the spend failed at
\* the end
C26_Witness ==
    /\ Spends(ms_or_d, <<Push(Preimage(7)), Sig(0)>>)
    /\ out = <<PublicKeyOf(0), Err("ScriptSatisfactionError")>>

----------------------------------------------------------------------------
(* C27 *)

\* the i-th call of next returned None at the end of a spend: no call before
\* it returned an error
EndedAt(i) ==
    /\ i \in 1..Len(out)
    /\ out[i] = None
    /\ \A j \in 1..(i - 1) : IsOk(out[j])

\* C27 as stated: once next has returned None for a valid spend, every later
\* call returns None.
C27_AsStated ==
    \A i \in 1..Len(out) :
        EndedAt(i) => \A j \in (i + 1)..Len(out) : out[j] = None

\* C27, what the code does: the call that follows the None of a valid spend
\* returns Err(ScriptSatisfactionError), the end of the script having popped
\* the Satisfied it found; every call after that one returns None.
C27_AfterTheEnd ==
    \A i \in 1..Len(out) :
        EndedAt(i) =>
            /\ i + 1 <= Len(out) => out[i + 1] = Err("ScriptSatisfactionError")
            /\ \A j \in (i + 2)..Len(out) : out[j] = None

\* c:pk_k(pk0) was spent on [sig0] and next was called twice after the None
C27_Witness ==
    /\ Spends(ms_pk, <<Sig(0)>>)
    /\ out = <<PublicKeyOf(0), None, Err("ScriptSatisfactionError"), None>>

----------------------------------------------------------------------------
(* C25 *)

\* the bytes are a signature: DER bytes and a standard sighash byte
IsSignature(bytes) ==
    /\ Len(bytes) >= 3
    /\ bytes[1] = 48
    /\ Last(bytes) \in StandardSigHash

\* the witness is a stack that holds a signature
HoldsSignature(w) == w.w = "Stack" /\ \E i \in 1..Len(w.v) : IsSignature(w.v[i])

\* a Satisfaction whose stack holds a signature has has_sig
FlagKept(s) == HoldsSignature(s.stack) => s.has_sig

\* the policies under which the satisfier was run on the miniscript
PoliciesRun ==
    {FALSE : x \in {y \in {satisfaction} : y # OptNone}}
        \cup {TRUE : x \in {y \in {satisfaction_mall} : y # OptNone}}

\* C25 as stated: every Satisfaction the satisfier computes for a node, under
\* either policy, that holds a signature has has_sig.
C25_AsStated ==
    /\ \A mall \in PoliciesRun :
       \A term \in Subterms(inner.ms) :
           FlagKept(satisfy_helper(term, lookup, root_has_sig, mall))
    /\ dissatisfaction # OptNone => FlagKept(dissatisfaction[1].sat)

\* C25: under the non-malleable policy every satisfaction and every
\* dissatisfaction computed for a node that holds a signature has has_sig.
\* Under the malleable policy the same holds for every dissatisfaction, and
\* for the satisfaction of every node that has no choice in it; the
\* satisfaction minimum_mall returns for a choice has has_sig only if both
\* candidates have it, whichever stack it takes.
C25_HasSig ==
    /\ satisfaction # OptNone =>
           \A term \in Subterms(inner.ms) :
               /\ FlagKept(satisfy_helper(term, lookup, root_has_sig, FALSE))
               /\ FlagKept(dissatisfy_helper(term, lookup, root_has_sig, FALSE))
    /\ dissatisfaction # OptNone => FlagKept(dissatisfaction[1].sat)
    /\ satisfaction_mall # OptNone =>
           \A term \in Subterms(inner.ms) :
               /\ FlagKept(dissatisfy_helper(term, lookup, root_has_sig, TRUE))
               /\ (\A sub \in Subterms(term) : ~IsChoice(sub)) =>
                      FlagKept(satisfy_helper(term, lookup, root_has_sig, TRUE))

\* and_b(c:pk_k(pk0), s:jtv:sha256(H)) was satisfied under both policies with
\* the signature and the preimage: both witnesses hold the signature and have
\* has_sig
C25_Witness ==
    /\ inner.ms = ms_and_b
    /\ satisfaction # OptNone
    /\ satisfaction_mall # OptNone
    /\ HoldsSignature(satisfaction[1].stack)
    /\ satisfaction[1].has_sig
    /\ HoldsSignature(satisfaction_mall[1].stack)
    /\ satisfaction_mall[1].has_sig

====
